---- MODULE Spec2Model ----
(***************************************************************************)
(* Layout/paint core of servo: text box splitting (layout/box.rs), display *)
(* list construction (layout/box.rs, gfx/display_list.rs), the operations  *)
(* of the render boxes and their style queries (layout/box.rs), layout     *)
(* data of DOM nodes (layout/aux.rs), the display list and its drawing     *)
(* (gfx/display_list.rs), resource discovery by the HTML parser            *)
(* (script/html/hubbub_html_parser.rs) and text input (script/textinput.rs)*)
(***************************************************************************)
EXTENDS Integers, Sequences, FiniteSets, TLC

\* ------------------------------------------------------------------ bounds
MaxSlices == 3      \* natural slices (glyph stores) in a text run
MaxItems == 2       \* display items in a list before building stops

SliceLens == 1..2   \* characters per natural slice
Advances == 1..2    \* advance width of one character
Guesses == 0..1     \* style-derived guessed widths of a box
Coords == 0..1      \* coordinates of offsets

VARIABLES
    run,        \* TextRun: the sequence of natural slices shared by the text boxes
    boxes,      \* the TextRenderBoxes in hand: the scanned box, then the boxes the
                \* last split returned; each with its range and the range split from
    split,      \* the last split_to_width call: arguments and SplitBoxResult
    flow,       \* what a flow hands to build_display_list for each of its boxes:
                \* the dirty rect and the offset; and whether debug logging is on
    list,       \* DisplayList.list
    build,      \* the last build_display_list call: the box and the list before
    failed,     \* TRUE once the task has hit fail!()
    dom,        \* the DOM nodes layout reads: parent, kind, attributes, computed
                \* style, and the layout data attached to each (an Option of an arc)
    render_boxes, \* the render boxes made for nodes of dom: class, node, geometry,
                \* the text and the cached styles of an unscanned box, the holder
                \* of an image box
    call,       \* the last operation called on a render box or a node: its
                \* name, arguments and result, and what it found before it ran
    arcs,       \* the LayoutData records allocated so far (RWArc::new)
    refs,       \* the collector handed to initialize_style_for_subtree
    context,    \* RenderContext: the draw calls made on it, in order
    css_msg_port,   \* the stream from parse_html to css_link_listener
    js_msg_port,    \* the stream from parse_html to js_script_listener
    discovery_port, \* the stream of HtmlDiscoveryMessages parse_html returns
    parser,     \* the task running parse_html: where it is, what is left to parse
    css_listener,   \* the task running css_link_listener: where it is, result_vec
    js_listener,    \* the task running js_script_listener: where it is, result_vec
    textinput   \* a TextInput: lines, edit_point, selection_begin, multiline

parse_vars ==
    <<css_msg_port, js_msg_port, discovery_port, parser, css_listener, js_listener>>
layout_vars ==
    <<run, boxes, split, flow, list, build, failed, dom, render_boxes, call, arcs, refs>>

vars == <<layout_vars, context, parse_vars, textinput>>

\* before parse_html is called there are no streams and no tasks; and no
\* TextInput before one is made
NoTask == [pc |-> "none"]
NoTextInput == [lines |-> <<>>]

\* ------------------------------------------------------------ Option<T>
None == <<>>
Some(x) == <<x>>
is_none(o) == o = None
is_some(o) == o # None
unwrap(o) == o[1]

Min(a, b) == IF a <= b THEN a ELSE b
Max(a, b) == IF a >= b THEN a ELSE b

\* ------------------------------------------------------- servo_util::range
Range_new(off, len) == [begin |-> off, length |-> len]
begin(r) == r.begin
length(r) == r.length
end(r) == r.begin + r.length
shift_by(r, i) == [r EXCEPT !.begin = @ + i]
extend_by(r, i) == [r EXCEPT !.length = @ + i]
\* the common part of two ranges, the empty range at 0 when there is none
intersect(r, o) ==
    LET b == Max(begin(r), begin(o))
        e == Min(end(r), end(o))
    IN  IF e < b THEN Range_new(0, 0) ELSE Range_new(b, e - b)

\* ------------------------------------------------------------- TextRun
\* A natural slice: len characters, whitespace or not, adv advance per character.
Slice == [len : SliceLens, ws : BOOLEAN, adv : Advances]

\* "hello world": the run of the documented example, every character 1 wide.
HelloWorld ==
    << [len |-> 5, ws |-> FALSE, adv |-> 1],
       [len |-> 1, ws |-> TRUE, adv |-> 1],
       [len |-> 5, ws |-> FALSE, adv |-> 1] >>

RECURSIVE slice_offset(_, _)
\* index of the first character of slice i of run r
slice_offset(r, i) == IF i = 1 THEN 0 ELSE slice_offset(r, i - 1) + r[i - 1].len

char_len(r) == slice_offset(r, Len(r) + 1)

RECURSIVE slices_from(_, _, _)
\* TextRun::iter_slices_for_range: for each slice of r from i on that meets range,
\* (glyphs, offset, slice_range) with slice_range relative to offset
slices_from(r, range, i) ==
    IF i > Len(r) THEN <<>>
    ELSE LET off == slice_offset(r, i)
             char_range == intersect(range, Range_new(off, r[i].len))
         IN  IF length(char_range) = 0 THEN slices_from(r, range, i + 1)
             ELSE << [glyphs |-> i, offset |-> off,
                      slice_range |-> shift_by(char_range, 0 - off)] >>
                  \o slices_from(r, range, i + 1)

iter_slices_for_range(r, range) == slices_from(r, range, 1)

\* GlyphStore::is_whitespace of slice `glyphs`
is_whitespace(r, glyphs) == r[glyphs].ws

\* TextRun::metrics_for_slice(glyphs, slice_range).advance_width
metrics_for_slice(r, glyphs, slice_range) == r[glyphs].adv * length(slice_range)

RECURSIVE advance_sum(_, _, _)
advance_sum(r, sl, k) ==
    IF k > Len(sl) THEN 0
    ELSE metrics_for_slice(r, sl[k].glyphs, sl[k].slice_range) + advance_sum(r, sl, k + 1)

\* TextRun::metrics_for_range(range).advance_width
metrics_for_range(r, range) == advance_sum(r, iter_slices_for_range(r, range), 1)

\* TextRun::iter_natural_lines_for_range: the run has no forced line break, so
\* the range is one natural line
iter_natural_lines_for_range(r, range) == << range >>

\* TextRenderBox::minimum_and_preferred_widths()[2]: the preferred width of a box
\* whose guess_width() is guessed_width
preferred_width(r, guessed_width, range) ==
    LET lines == iter_natural_lines_for_range(r, range)
        widths == { metrics_for_range(r, lines[i]) : i \in 1..Len(lines) }
        max_line_width == IF \E w \in widths : w > 0
                          THEN CHOOSE w \in widths : \A v \in widths : v <= w
                          ELSE 0
    IN  guessed_width + max_line_width

\* --------------------------------------------- TextRenderBox::split_to_width
\* mutant: one unit more than what is left is let through
slice_fits_nearly(advance, remaining_width) == advance <= remaining_width + 1

\* `advance <= remaining_width`: does the slice fit in what is left of the width?
slice_fits(advance, remaining_width) == advance <= remaining_width

\* mutant: the count is compared after it was incremented
skips_leading_whitespace_late(starts_line, pieces_processed_count, whitespace) ==
    starts_line /\ pieces_processed_count = 1 /\ whitespace

\* case=skipping leading trimmable whitespace
skips_leading_whitespace(starts_line, pieces_processed_count, whitespace) ==
    starts_line /\ pieces_processed_count = 0 /\ whitespace

\* mutants: the slice's offset in the run is forgotten
slice_begin_relative(s) == begin(s.slice_range)
slice_end_relative(s) == end(s.slice_range)

\* first and one-past-last character of slice s, as indices into the run
slice_begin(s) == s.offset + begin(s.slice_range)
slice_end(s) == s.offset + end(s.slice_range)

\* mutant: the end of the box range is passed as the length of the right range
whitespace_right_range_to_end(self_range, slice_end_) ==
    IF slice_end_ < end(self_range)
    THEN Some(Range_new(slice_end_, end(self_range)))
    ELSE None

\* mutant: a right range is made even when nothing follows the whitespace
whitespace_right_range_empty(self_range, slice_end_) ==
    IF slice_end_ <= end(self_range)
    THEN Some(Range_new(slice_end_, end(self_range) - slice_end_))
    ELSE None

\* right range when the slice that does not fit is whitespace ending at slice_end_
whitespace_right_range(self_range, slice_end_) ==
    IF slice_end_ < end(self_range)
    THEN Some(Range_new(slice_end_, end(self_range) - slice_end_))
    ELSE None

\* mutant: the end of the box range is passed as the length of the right range
remainder_right_range_to_end(self_range, slice_begin_) ==
    IF slice_begin_ < end(self_range)
    THEN Some(Range_new(slice_begin_, end(self_range)))
    ELSE None

\* right range when the slice that does not fit is a word beginning at slice_begin_
remainder_right_range(self_range, slice_begin_) ==
    IF slice_begin_ < end(self_range)
    THEN Some(Range_new(slice_begin_, end(self_range) - slice_begin_))
    ELSE None

\* One pass of the body of the `for` loop over a slice s, from loop state st.
split_slice(r, self_range, starts_line, s, st) ==
    LET advance == metrics_for_slice(r, s.glyphs, s.slice_range)
    IN  IF slice_fits(advance, st.remaining_width)
        THEN IF skips_leading_whitespace(starts_line, st.pieces_processed_count,
                                         is_whitespace(r, s.glyphs))
             THEN [st EXCEPT !.should_continue = TRUE,
                             !.left_range = shift_by(@, length(s.slice_range)),
                             !.pieces_processed_count = @ + 1]
             ELSE [st EXCEPT !.should_continue = TRUE,
                             !.remaining_width = @ - advance,
                             !.left_range = extend_by(@, length(s.slice_range)),
                             !.pieces_processed_count = @ + 1]
        ELSE IF is_whitespace(r, s.glyphs)
             THEN [st EXCEPT !.should_continue = FALSE,
                             !.right_range = whitespace_right_range(self_range, slice_end(s)),
                             !.pieces_processed_count = @ + 1]
             ELSE [st EXCEPT !.should_continue = FALSE,
                             !.right_range = remainder_right_range(self_range, slice_begin(s)),
                             !.pieces_processed_count = @ + 1]

RECURSIVE split_loop(_, _, _, _, _, _)
\* the `for` loop: slices sl from the k-th on, until one says not to continue
split_loop(r, self_range, starts_line, sl, k, st) ==
    IF k > Len(sl) THEN st
    ELSE LET st2 == split_slice(r, self_range, starts_line, sl[k], st)
         IN  IF st2.should_continue
             THEN split_loop(r, self_range, starts_line, sl, k + 1, st2)
             ELSE st2

\* SplitDidNotFit or SplitDidFit, from the loop's count and the left box
split_outcome(pieces_processed_count, left_box) ==
    IF pieces_processed_count = 1 \/ is_none(left_box)
    THEN "SplitDidNotFit" ELSE "SplitDidFit"

\* The whole of split_to_width on a text box of range self_range: the loop's final
\* state, the ranges of the boxes made, and the outcome.
split_to_width(r, self_range, max_width, starts_line) ==
    LET st0 == [pieces_processed_count |-> 0,
                remaining_width |-> max_width,
                left_range |-> Range_new(begin(self_range), 0),
                right_range |-> None,
                should_continue |-> TRUE]
        st == split_loop(r, self_range, starts_line,
                         iter_slices_for_range(r, self_range), 1, st0)
        left_box == IF length(st.left_range) > 0 THEN Some(st.left_range) ELSE None
        right_box == st.right_range
    IN  [pieces_processed_count |-> st.pieces_processed_count,
         should_continue |-> st.should_continue,
         remaining_width |-> st.remaining_width,
         left_range |-> st.left_range,
         left_box |-> left_box,
         right_box |-> right_box,
         outcome |-> split_outcome(st.pieces_processed_count, left_box)]

\* text::adapt_textbox_with_range: a new text box on the same run
adapt_textbox_with_range(parent, range) == [range |-> range, parent |-> parent]

\* Are the assertions of adapt_textbox_with_range met by range?
adapt_asserts(r, range) ==
    begin(range) < char_len(r) /\ end(range) <= char_len(r) /\ length(range) > 0

NoSplit == [box |-> 0]
NoBuild == [called |-> FALSE]
NoFlow == [debug |-> FALSE]
NoDom == <<>>
NoCall == [op |-> "none"]

\* ----------------------------------------------------------- text splitting
\* Runs as TextRun::break_and_shape makes them: a new slice starts where
\* whitespace turns into non-whitespace or back, so the slices alternate.
RunsUpTo(n) ==
    UNION { { r \in [1..k -> Slice] : \A i \in 1..(k - 1) : r[i].ws # r[i + 1].ws }
            : k \in 1..n }

\* The ranges of the scanned box: the whole run, or (a box scanned from a text
\* node that is not the first or last of its run) the run without its first and
\* last characters, which can begin and end inside a slice.
ScannedRanges(r) ==
    { Range_new(0, char_len(r)) }
    \cup (IF char_len(r) >= 3 THEN { Range_new(1, char_len(r) - 2) } ELSE {})

InitSplit ==
    /\ run \in RunsUpTo(MaxSlices) \cup {HelloWorld}
    /\ \E range \in ScannedRanges(run) :
           boxes = << adapt_textbox_with_range(Range_new(0, char_len(run)), range) >>
    /\ split = NoSplit
    /\ flow = NoFlow
    /\ list = <<>>
    /\ build = NoBuild
    /\ failed = FALSE
    /\ dom = NoDom
    /\ render_boxes = <<>>
    /\ call = NoCall
    /\ arcs = <<>>
    /\ refs = <<>>
    /\ context = <<>>
    /\ css_msg_port = <<>> /\ js_msg_port = <<>> /\ discovery_port = <<>>
    /\ parser = NoTask /\ css_listener = NoTask /\ js_listener = NoTask
    /\ textinput = NoTextInput

\* the widths tried on a box: from a negative one up to a little more than any
\* preferred width it can have
Widths(r, range) == (0 - 1)..(metrics_for_range(r, range) + 2)

\* the boxes split_to_width makes for its result: left first, then right
boxes_made(self, res) ==
    (IF is_some(res.left_box)
     THEN << adapt_textbox_with_range(self.range, unwrap(res.left_box)) >> ELSE <<>>)
    \o (IF is_some(res.right_box)
        THEN << adapt_textbox_with_range(self.range, unwrap(res.right_box)) >> ELSE <<>>)

\* box b is split at max_width; the boxes returned replace the boxes in hand
SplitToWidth(b, max_width, starts_line) ==
    \E res \in { split_to_width(run, boxes[b].range, max_width, starts_line) } :
    \E made \in { boxes_made(boxes[b], res) } :
    LET ok == \A i \in 1..Len(made) : adapt_asserts(run, made[i].range)
    IN  /\ ~failed
        /\ split' = [box |-> b, range |-> boxes[b].range, max_width |-> max_width,
                     starts_line |-> starts_line, result |-> res]
        /\ boxes' = IF ok THEN made ELSE boxes
        /\ failed' = ~ok
        /\ UNCHANGED <<run, flow, list, build, dom, render_boxes, call, arcs, refs,
                       context, parse_vars, textinput>>

NextSplit ==
    \E b \in 1..Len(boxes), starts_line \in BOOLEAN :
        \E max_width \in Widths(run, boxes[b].range) :
            SplitToWidth(b, max_width, starts_line)

SpecSplit == InitSplit /\ [][NextSplit]_vars

\* ------------------------------------------------- properties of splitting
\* the characters of a range, and of the range of an optional box
Chars(range) == begin(range)..(end(range) - 1)
OptChars(o) == IF is_some(o) THEN Chars(unwrap(o)) ELSE {}

\* The natural slices of the box the last call split, in order: each with its
\* characters as a range of the run, its whitespace flag and its advance.
SplitSlices ==
    LET sl == iter_slices_for_range(run, split.range)
    IN  [k \in 1..Len(sl) |->
            [range |-> shift_by(sl[k].slice_range, sl[k].offset),
             ws |-> is_whitespace(run, sl[k].glyphs),
             advance |-> metrics_for_slice(run, sl[k].glyphs, sl[k].slice_range)]]

SplitCalled == split.box # 0

\* The loop of the last call stopped at a slice that did not fit: the slice
\* counted last, wider than the width that was left.
Overflowed ==
    /\ SplitCalled
    /\ ~split.result.should_continue
    /\ SplitSlices[split.result.pieces_processed_count].advance
           > split.result.remaining_width

OverflowSlice == SplitSlices[split.result.pieces_processed_count]

\* C1: the left range, the right range and the trimmed whitespace slices (the
\* skipped leading one, the overflowing one) partition the range that was split:
\* left and right are disjoint and inside it, left comes before right, right ends
\* where it ends, and what they leave is made of at most two whole whitespace
\* slices, each the first slice of a line start or the slice right after left.
C1_Partition ==
    SplitCalled =>
        LET R == split.range
            L == split.result.left_range
            left == OptChars(split.result.left_box)
            right == OptChars(split.result.right_box)
            rest == Chars(R) \ (left \cup right)
            T == { k \in DOMAIN SplitSlices :
                     /\ SplitSlices[k].ws
                     /\ Chars(SplitSlices[k].range) \subseteq rest
                     /\ \/ k = 1 /\ split.starts_line
                        \/ begin(SplitSlices[k].range) = end(L) }
        IN  /\ left = Chars(L)
            /\ left \cap right = {}
            /\ left \cup right \subseteq Chars(R)
            /\ \A i \in left, j \in right : i < j
            /\ is_some(split.result.right_box) =>
                   /\ length(unwrap(split.result.right_box)) > 0
                   /\ end(unwrap(split.result.right_box)) = end(R)
            /\ rest = UNION { Chars(SplitSlices[k].range) : k \in T }
            /\ Cardinality(T) <= 2

\* C1 witness: a split at a line start that skipped the leading whitespace, kept
\* a left box and trimmed the whitespace that did not fit.
C1_Witness ==
    /\ SplitCalled /\ split.starts_line
    /\ begin(split.result.left_range) > begin(split.range)
    /\ is_some(split.result.left_box)
    /\ Overflowed /\ OverflowSlice.ws

\* C2 (as claimed): at a width that is at least the preferred width of the box,
\* whatever its guessed width, the split did fit and made no right box.
C2_FitsAtPreferredWidth ==
    SplitCalled =>
        \A g \in Guesses :
            split.max_width >= preferred_width(run, g, split.range) =>
                /\ split.result.outcome = "SplitDidFit"
                /\ is_none(split.result.right_box)

\* C3 (as claimed): the outcome is SplitDidNotFit exactly when only one slice was
\* processed and it did not fit, or no left box was made.
C3_OutcomeClassification ==
    SplitCalled =>
        (split.result.outcome = "SplitDidNotFit"
            <=> \/ /\ split.result.pieces_processed_count = 1
                   /\ SplitSlices[1].advance > split.max_width
                \/ is_none(split.result.left_box))

\* C4: a range that is one non-whitespace slice wider than the width gives
\* SplitDidNotFit, no left box and a right box with the whole range.
C4_SingleWideWord ==
    (/\ SplitCalled
     /\ Len(SplitSlices) = 1
     /\ ~SplitSlices[1].ws
     /\ SplitSlices[1].advance > split.max_width)
    => /\ split.result.outcome = "SplitDidNotFit"
       /\ is_none(split.result.left_box)
       /\ split.result.right_box = Some(split.range)

C4_Witness ==
    /\ SplitCalled
    /\ Len(SplitSlices) = 1
    /\ ~SplitSlices[1].ws
    /\ SplitSlices[1].advance > split.max_width
    /\ begin(split.range) > 0

\* C5: at a line start a leading whitespace slice is never in the left range,
\* which begins after it when it was skipped; and the skipped slice takes nothing
\* from the width: what is left is the width less the advance of the left range.
C5_LeadingWhitespace ==
    (SplitCalled /\ split.starts_line /\ SplitSlices[1].ws)
    => /\ Chars(SplitSlices[1].range) \cap Chars(split.result.left_range) = {}
       /\ Chars(SplitSlices[1].range) \cap OptChars(split.result.left_box) = {}
       /\ SplitSlices[1].advance <= split.max_width =>
              /\ begin(split.result.left_range) = end(SplitSlices[1].range)
              /\ split.result.remaining_width =
                     split.max_width - metrics_for_range(run, split.result.left_range)

\* C5 witness: the leading whitespace fitted, was skipped, and a left box follows.
C5_Witness ==
    /\ SplitCalled /\ split.starts_line /\ SplitSlices[1].ws
    /\ SplitSlices[1].advance <= split.max_width
    /\ is_some(split.result.left_box)
    /\ split.result.remaining_width < split.max_width

\* C6: when the first slice that does not fit is whitespace, the left range ends
\* where it begins and the right range is what follows it in the box range, if
\* anything; "hello world" at the width of "hello" gives (0, 5) and (6, 5).
C6_WhitespaceOverflow ==
    /\ (Overflowed /\ OverflowSlice.ws) =>
           /\ end(split.result.left_range) = begin(OverflowSlice.range)
           /\ split.result.right_box =
                  IF end(OverflowSlice.range) < end(split.range)
                  THEN Some(Range_new(end(OverflowSlice.range),
                                      end(split.range) - end(OverflowSlice.range)))
                  ELSE None
    /\ (/\ SplitCalled /\ run = HelloWorld /\ split.range = Range_new(0, 11)
        /\ split.max_width = metrics_for_range(run, Range_new(0, 5)))
       => /\ split.result.left_box = Some(Range_new(0, 5))
          /\ split.result.right_box = Some(Range_new(6, 5))

\* C6 witness: "hello world" split at the width of "hello" at a line start.
C6_Witness ==
    /\ SplitCalled /\ run = HelloWorld /\ split.range = Range_new(0, 11)
    /\ split.max_width = 5 /\ split.starts_line
    /\ Overflowed /\ OverflowSlice.ws

\* C7: the ends of the left range and the begin of the right range are
\* boundaries of natural slices of the box range, and a non-whitespace slice that
\* does not fit starts the right range, which runs to the end of the box range.
C7_NeverSplitsInsideSlice ==
    SplitCalled =>
        LET bounds == { begin(SplitSlices[k].range) : k \in DOMAIN SplitSlices }
                      \cup { end(SplitSlices[k].range) : k \in DOMAIN SplitSlices }
        IN  /\ begin(split.result.left_range) \in bounds
            /\ end(split.result.left_range) \in bounds
            /\ is_some(split.result.right_box) =>
                   begin(unwrap(split.result.right_box)) \in bounds
            /\ (Overflowed /\ ~OverflowSlice.ws) =>
                   split.result.right_box =
                       Some(Range_new(begin(OverflowSlice.range),
                                      end(split.range) - begin(OverflowSlice.range)))

\* C7 witness: a box that begins inside a slice, split before a word that does
\* not fit, after a left box.
C7_Witness ==
    /\ Overflowed /\ ~OverflowSlice.ws
    /\ is_some(split.result.left_box)
    /\ begin(split.range) > 0

\* C8: every text box has a range inside the run and inside the range of the box
\* it was split from, and no box was made with a range the run does not have.
C8_RangesValid ==
    /\ ~failed
    /\ \A i \in 1..Len(boxes) :
           /\ begin(boxes[i].range) >= 0
           /\ length(boxes[i].range) >= 0
           /\ end(boxes[i].range) <= char_len(run)
           /\ begin(boxes[i].range) >= begin(boxes[i].parent)
           /\ end(boxes[i].range) <= end(boxes[i].parent)

\* C8 witness: a box made by splitting a box that was itself made by a split (the
\* scanned box begins at 0 or 1), and smaller than it.
C8_Witness ==
    /\ SplitCalled
    /\ Len(boxes) >= 1
    /\ begin(boxes[1].parent) > 1
    /\ boxes[1].range # boxes[1].parent


\* the slices the loop of the last call went through that fitted: all it
\* counted, but for the one it stopped at
Fitted ==
    1..(split.result.pieces_processed_count - (IF Overflowed THEN 1 ELSE 0))

\* C27 (as claimed): the width that is left is never negative, the advance of
\* the left range is at most max_width, and every slice that fitted is in the
\* left range or is the skipped leading whitespace.
C27_BudgetNeverNegative ==
    SplitCalled =>
        /\ split.result.remaining_width >= 0
        /\ metrics_for_range(run, split.result.left_range) <= split.max_width
        /\ \A k \in Fitted :
               \/ Chars(SplitSlices[k].range) \subseteq Chars(split.result.left_range)
               \/ k = 1 /\ split.starts_line /\ SplitSlices[k].ws

\* C27 (amended): the width that is left is max_width less the advance of the
\* left range, and never more than max_width; for a max_width that is not
\* negative it is never negative, so the advance of the left range is at most
\* max_width; for a negative max_width no slice fits, the left range is empty
\* and the width that is left is max_width; and every slice that fitted is in
\* the left range or is the skipped leading whitespace, which is not.
C27_BudgetWithinMaxWidth ==
    SplitCalled =>
        /\ split.result.remaining_width
               = split.max_width - metrics_for_range(run, split.result.left_range)
        /\ split.result.remaining_width <= split.max_width
        /\ split.max_width >= 0 =>
               /\ split.result.remaining_width >= 0
               /\ metrics_for_range(run, split.result.left_range) <= split.max_width
        /\ split.max_width < 0 =>
               /\ length(split.result.left_range) = 0
               /\ Fitted = {}
               /\ split.result.remaining_width = split.max_width
        /\ \A k \in Fitted :
               IF k = 1 /\ split.starts_line /\ SplitSlices[k].ws
               THEN Chars(SplitSlices[k].range) \cap Chars(split.result.left_range) = {}
               ELSE Chars(SplitSlices[k].range) \subseteq Chars(split.result.left_range)

\* C27 witness: two slices fitted and took all of the width, and a third did
\* not fit.
C27_Witness ==
    /\ SplitCalled /\ Overflowed
    /\ split.result.pieces_processed_count = 3
    /\ split.result.remaining_width = 0
    /\ split.max_width > 0
    /\ metrics_for_range(run, split.result.left_range) = split.max_width

\* ------------------------------------------------------------ geom::Rect
Point2D(x, y) == [x |-> x, y |-> y]
Size2D(w, h) == [width |-> w, height |-> h]
Rect(origin, size) == [origin |-> origin, size |-> size]

translate(rect, offset) ==
    Rect(Point2D(rect.origin.x + offset.x, rect.origin.y + offset.y), rect.size)

intersects(a, b) ==
    /\ a.origin.x < b.origin.x + b.size.width
    /\ b.origin.x < a.origin.x + a.size.width
    /\ a.origin.y < b.origin.y + b.size.height
    /\ b.origin.y < a.origin.y + a.size.height

\* ------------------------------------------- RenderBoxUtils for @mut RenderBox
DisplayItem(ty, bounds) == [ty |-> ty, bounds |-> bounds]

\* mutant: the item goes to the front of the list
append_item_front(l, item) == <<item>> \o l

\* DisplayList::append_item
append_item(l, item) == Append(l, item)

\* the list after paint_background_if_applicable
paint_background_if_applicable(box, l, absolute_bounds) ==
    IF box.background_alpha # 0
    THEN append_item(l, DisplayItem("SolidColor", absolute_bounds))
    ELSE l

\* mutant: no fast path, a box with no border gets a Border item as well
paint_borders_always(box, l, abs_bounds) ==
    append_item(l, DisplayItem("Border", abs_bounds))

\* the list after paint_borders_if_applicable
paint_borders_if_applicable(box, l, abs_bounds) ==
    IF box.border = 0 THEN l
    ELSE append_item(l, DisplayItem("Border", abs_bounds))

\* the list after the debug!() block of a box: n debug frames, when logging is on
debug_frames(l, debug, n, absolute_box_bounds) ==
    IF ~debug \/ n = 0 THEN l
    ELSE IF n = 1 THEN append_item(l, DisplayItem("Border", absolute_box_bounds))
    ELSE append_item(append_item(l, DisplayItem("Border", absolute_box_bounds)),
                     DisplayItem("Border", Rect(absolute_box_bounds.origin,
                                                Size2D(absolute_box_bounds.size.width, 0))))

\* mutant: an image box whose holder has no image gets an item all the same,
\* as a placeholder would
build_class_placeholder(box, l, debug, absolute_box_bounds) ==
    LET bg == paint_background_if_applicable(box, l, absolute_box_bounds)
    IN  CASE box.class = "Text" ->
                 debug_frames(append_item(bg, DisplayItem("Text", absolute_box_bounds)),
                              debug, 2, absolute_box_bounds)
          [] box.class = "Generic" -> debug_frames(bg, debug, 1, absolute_box_bounds)
          [] box.class = "Image" -> append_item(bg, DisplayItem("Image", absolute_box_bounds))

\* the list after the arm of `match self.class()` of a box that is no unscanned box
build_class(box, l, debug, absolute_box_bounds) ==
    LET bg == paint_background_if_applicable(box, l, absolute_box_bounds)
    IN  CASE box.class = "Text" ->
                 debug_frames(append_item(bg, DisplayItem("Text", absolute_box_bounds)),
                              debug, 2, absolute_box_bounds)
          [] box.class = "Generic" -> debug_frames(bg, debug, 1, absolute_box_bounds)
          [] box.class = "Image" ->
                 IF box.image THEN append_item(bg, DisplayItem("Image", absolute_box_bounds))
                 ELSE bg

\* "Did not intersect...": the box is left out of the list
culled(absolute_box_bounds, dirty) == ~intersects(absolute_box_bounds, dirty)

\* mutant: the box is tested against the dirty rect where it lies in its flow,
\* before the offset of the flow is added
build_display_list_untranslated(box, dirty, offset, debug, l) ==
    LET absolute_box_bounds == translate(box.position, offset)
    IN  IF culled(box.position, dirty)
        THEN [list |-> l, failed |-> FALSE]
        ELSE IF box.class = "UnscannedText"
        THEN [list |-> l, failed |-> TRUE]
        ELSE [list |-> paint_borders_if_applicable(
                           box, build_class(box, l, debug, absolute_box_bounds),
                           absolute_box_bounds),
              failed |-> FALSE]

\* mutant: the class of the box is matched before the dirty rect is looked at
build_display_list_class_first(box, dirty, offset, debug, l) ==
    LET absolute_box_bounds == translate(box.position, offset)
    IN  IF box.class = "UnscannedText"
        THEN [list |-> l, failed |-> TRUE]
        ELSE IF culled(absolute_box_bounds, dirty)
        THEN [list |-> l, failed |-> FALSE]
        ELSE [list |-> paint_borders_if_applicable(
                           box, build_class(box, l, debug, absolute_box_bounds),
                           absolute_box_bounds),
              failed |-> FALSE]

\* build_display_list of box: the list after, and whether the call hit fail!()
build_display_list(box, dirty, offset, debug, l) ==
    LET absolute_box_bounds == translate(box.position, offset)
    IN  IF culled(absolute_box_bounds, dirty)
        THEN [list |-> l, failed |-> FALSE]
        ELSE IF box.class = "UnscannedText"
        THEN [list |-> l, failed |-> TRUE]
        ELSE [list |-> paint_borders_if_applicable(
                           box, build_class(box, l, debug, absolute_box_bounds),
                           absolute_box_bounds),
              failed |-> FALSE]

\* ------------------------------------------------------ display list building
Classes == {"Generic", "Image", "Text", "UnscannedText"}

Positions ==
    { Rect(Point2D(0, 0), Size2D(0, 0)),     \* Au::zero_rect(), as RenderBoxBase::new leaves it
      Rect(Point2D(0, 0), Size2D(1, 1)),
      Rect(Point2D(1, 1), Size2D(1, 1)) }

DirtyRects ==
    { Rect(Point2D(0, 0), Size2D(1, 1)),
      Rect(Point2D(1, 0), Size2D(1, 2)),
      Rect(Point2D(0, 0), Size2D(3, 3)) }

Offsets == { Point2D(x, y) : x \in Coords, y \in Coords }

\* the boxes: an image holder has an image or not, other boxes have no holder
Boxes ==
    { b \in [class : Classes, position : Positions, background_alpha : 0..1,
             border : 0..1, image : BOOLEAN] : b.image => b.class = "Image" }

InitDisplay ==
    /\ run = <<>>
    /\ boxes = <<>>
    /\ split = NoSplit
    /\ flow \in [dirty : DirtyRects, offset : Offsets, debug : BOOLEAN]
    /\ list = <<>>
    /\ build = NoBuild
    /\ failed = FALSE
    /\ dom = NoDom
    /\ render_boxes = <<>>
    /\ call = NoCall
    /\ arcs = <<>>
    /\ refs = <<>>
    /\ context = <<>>
    /\ css_msg_port = <<>> /\ js_msg_port = <<>> /\ discovery_port = <<>>
    /\ parser = NoTask /\ css_listener = NoTask /\ js_listener = NoTask
    /\ textinput = NoTextInput

BuildDisplayList(box) ==
    \E res \in { build_display_list(box, flow.dirty, flow.offset, flow.debug, list) } :
        /\ ~failed
        /\ Len(list) < MaxItems
        /\ build' = [called |-> TRUE, box |-> box, before |-> list]
        /\ list' = res.list
        /\ failed' = res.failed
        /\ UNCHANGED <<run, boxes, split, flow, dom, render_boxes, call, arcs, refs,
                       context, parse_vars, textinput>>

NextDisplay == \E box \in Boxes : BuildDisplayList(box)

SpecDisplay == InitDisplay /\ [][NextDisplay]_vars

\* ------------------------------------------ properties of display lists
BuildCalled == build.called
BuildBounds == translate(build.box.position, flow.offset)

\* two rects with no overlap: one ends before the other begins, across or down
Apart(a, b) ==
    \/ a.origin.x + a.size.width <= b.origin.x
    \/ b.origin.x + b.size.width <= a.origin.x
    \/ a.origin.y + a.size.height <= b.origin.y
    \/ b.origin.y + b.size.height <= a.origin.y

\* C9: a call on a box, of any class, whose absolute bounds do not intersect the
\* dirty rect appends nothing: the list is as it was before the call.
C9_CulledBoxAppendsNothing ==
    (BuildCalled /\ Apart(BuildBounds, flow.dirty)) => list = build.before

\* C9 witness: a box with a background and a border, apart from the dirty rect
\* only once the offset is added, is built into a list that has an item.
C9_Witness ==
    /\ BuildCalled /\ Apart(BuildBounds, flow.dirty)
    /\ ~Apart(build.box.position, flow.dirty)
    /\ build.box.background_alpha # 0 /\ build.box.border # 0
    /\ Len(build.before) > 0

\* C10 (as claimed): every call on an unscanned text box fails.
C10_UnscannedAlwaysFails ==
    (BuildCalled /\ build.box.class = "UnscannedText") => failed

\* C10 (amended): a call on an unscanned text box fails exactly when the absolute
\* bounds of the box intersect the dirty rect; either way it appends nothing.
C10_UnscannedFailsWhenIntersecting ==
    (BuildCalled /\ build.box.class = "UnscannedText") =>
        /\ failed <=> ~Apart(BuildBounds, flow.dirty)
        /\ list = build.before

\* C10 witness: a call on an unscanned text box inside the dirty rect has failed.
C10_Witness ==
    /\ BuildCalled /\ build.box.class = "UnscannedText"
    /\ ~Apart(BuildBounds, flow.dirty)
    /\ failed

\* what the last call appended, and the kinds of the items appended
Appended == SubSeq(list, Len(build.before) + 1, Len(list))
AppendedTypes == [i \in 1..Len(Appended) |-> Appended[i].ty]
Intersecting == BuildCalled /\ ~Apart(BuildBounds, flow.dirty)

\* C14 (as claimed): a call on a box that intersects the dirty rect, when it
\* returns, has appended a SolidColor item, and first, iff the background alpha
\* is not zero, and a Border item iff the border is not zero, and then last.
C14_BorderIffNonZero ==
    (Intersecting /\ ~failed) =>
        /\ (build.box.background_alpha # 0) <=>
               (Len(Appended) >= 1 /\ AppendedTypes[1] = "SolidColor")
        /\ (build.box.border # 0) <=>
               (\E i \in 1..Len(Appended) : AppendedTypes[i] = "Border")
        /\ (build.box.border # 0) => AppendedTypes[Len(Appended)] = "Border"

\* C14 (amended): a call on a generic, image or text box that intersects the
\* dirty rect appends, in this order: a SolidColor item iff the background
\* alpha is not zero; the Text item of a text box, or the Image item of an image
\* box whose holder has an image; when debug logging is on, two Border items for
\* a text box and one for a generic box; and last a Border item with the bounds
\* of the box iff its border is not zero.
C14_OrderWithDebugFrames ==
    (Intersecting /\ build.box.class # "UnscannedText") =>
        LET box == build.box
            bg == IF box.background_alpha # 0 THEN <<"SolidColor">> ELSE <<>>
            content == IF box.class = "Text" THEN <<"Text">>
                       ELSE IF box.class = "Image" /\ box.image THEN <<"Image">>
                       ELSE <<>>
            frames == IF ~flow.debug THEN <<>>
                      ELSE IF box.class = "Text" THEN <<"Border", "Border">>
                      ELSE IF box.class = "Generic" THEN <<"Border">>
                      ELSE <<>>
            border == IF box.border # 0 THEN <<"Border">> ELSE <<>>
        IN  /\ ~failed
            /\ AppendedTypes = bg \o content \o frames \o border
            /\ box.border # 0 => Appended[Len(Appended)].bounds = BuildBounds
            /\ box.background_alpha # 0 => Appended[1].bounds = BuildBounds

\* C14 witness: a text box with a background and a border is built with debug
\* logging on, after another box: background, text, two frames, border.
C14_Witness ==
    /\ Intersecting /\ build.box.class = "Text" /\ flow.debug
    /\ build.box.background_alpha # 0 /\ build.box.border # 0
    /\ Len(build.before) > 0
    /\ AppendedTypes = <<"SolidColor", "Text", "Border", "Border", "Border">>

\* C15 (as claimed): a call on an image box appends an Image item iff the
\* holder has a decoded image at the time of the call.
C15_ImageIffHolderHasImage ==
    (BuildCalled /\ build.box.class = "Image") =>
        /\ ~failed
        /\ build.box.image <=> (\E i \in 1..Len(Appended) : AppendedTypes[i] = "Image")

\* C15 (amended): a call on an image box never fails; when the box intersects
\* the dirty rect it appends one Image item, with the bounds of the box, iff the
\* holder has a decoded image at the time of the call, and when the holder has
\* none it appends nothing but the background and the border of the box; when
\* the box does not intersect the dirty rect it appends nothing.
C15_ImageIffDecodedAndIntersecting ==
    (BuildCalled /\ build.box.class = "Image") =>
        LET images == { i \in 1..Len(Appended) : AppendedTypes[i] = "Image" }
        IN  /\ ~failed
            /\ (build.box.image /\ ~Apart(BuildBounds, flow.dirty)) <=> images # {}
            /\ Cardinality(images) <= 1
            /\ \A i \in images : Appended[i].bounds = BuildBounds
            /\ \A i \in 1..Len(Appended) :
                   AppendedTypes[i] \in {"SolidColor", "Image", "Border"}
            /\ Len(Appended) = (IF images # {} THEN 1 ELSE 0)
                   + (IF ~Apart(BuildBounds, flow.dirty) /\ build.box.background_alpha # 0
                      THEN 1 ELSE 0)
                   + (IF ~Apart(BuildBounds, flow.dirty) /\ build.box.border # 0
                      THEN 1 ELSE 0)

\* C15 witness: an image box with no background and no border, whose holder
\* has no image, is built inside the dirty rect: the call returns, the list is
\* as it was.
C15_Witness ==
    /\ Intersecting /\ build.box.class = "Image" /\ ~build.box.image
    /\ build.box.background_alpha = 0 /\ build.box.border = 0
    /\ ~failed /\ Appended = <<>>

\* ----------------------------------------------- the styled node tree (DOM)
\* Strings are sequences of characters.
\* str::is_whitespace: every character is whitespace (so is the empty string)
str_is_whitespace(text) == \A i \in 1..Len(text) : text[i] = " "

\* FromStr::from_str for int: an optional minus sign, then one decimal digit
\* or more, and nothing else
from_str(s) ==
    LET DigitChars == <<"0", "1", "2", "3", "4", "5", "6", "7", "8", "9">>
        is_digit(c) == \E i \in 1..10 : DigitChars[i] = c
        digit(c) == (CHOOSE i \in 1..10 : DigitChars[i] = c) - 1
        negative == s # <<>> /\ Head(s) = "-"
        ds == IF negative THEN Tail(s) ELSE s
        value[k \in 0..Len(ds)] == IF k = 0 THEN 0 ELSE value[k - 1] * 10 + digit(ds[k])
    IN  IF ds = <<>> \/ \E i \in 1..Len(ds) : ~is_digit(ds[i]) THEN None
        ELSE Some(IF negative THEN 0 - value[Len(ds)] ELSE value[Len(ds)])

\* Au::from_px: sixty app units to the pixel
from_px(px) == px * 60

\* a node: its parent (0 when it has none), its kind, the character data of a
\* text node, the attributes and the computed style of an element, and its
\* layout data
Node(parent, kind, data, attrs, style) ==
    [parent |-> parent, kind |-> kind, data |-> data, attrs |-> attrs, style |-> style,
     layout_data |-> None]

is_element(d, node) == d[node].kind = "Element"
parent_node(d, node) == IF d[node].parent = 0 THEN None ELSE Some(d[node].parent)
get_attr(d, node, name) == d[node].attrs[name]
NoAttrs == [width |-> None, height |-> None]

\* the computed style of an element with nothing declared
Plain ==
    [text_decoration |-> "none", position |-> "static", float |-> "none",
     display |-> "inline", font_size |-> <<"Px", 16>>, font_style |-> "normal",
     font_family |-> << <<"GenericFamily", "Serif">> >>, background_alpha |-> 0]

\* mutant: the walk starts at the parent of the node
nearest_ancestor_element_of_parent(d, node) ==
    IF is_none(parent_node(d, node)) THEN None
    ELSE LET up[n \in 1..Len(d)] ==
                 IF is_element(d, n) THEN Some(n)
                 ELSE IF is_none(parent_node(d, n)) THEN None
                 ELSE up[unwrap(parent_node(d, n))]
         IN  up[unwrap(parent_node(d, node))]

\* RenderBoxBase::nearest_ancestor_element: the node, or None where it hits
\* fail!("no nearest element?!")
RECURSIVE nearest_ancestor_element(_, _)
nearest_ancestor_element(d, node) ==
    IF is_element(d, node) THEN Some(node)
    ELSE IF is_none(parent_node(d, node)) THEN None
    ELSE nearest_ancestor_element(d, unwrap(parent_node(d, node)))

\* the FontStyle made from a computed style; the family names are kept as a
\* sequence (the code joins them with ", ")
get_font_style(my_style) ==
    LET family(f) ==
            IF f[1] = "FamilyName" THEN f[2]
            ELSE CASE f[2] = "Serif" -> "serif"
                   [] f[2] = "SansSerif" -> "sans-serif"
                   [] f[2] = "Cursive" -> "cursive"
                   [] f[2] = "Fantasy" -> "fantasy"
                   [] f[2] = "Monospace" -> "monospace"
        font_size == IF my_style.font_size[1] = "Px" THEN my_style.font_size[2]
                     ELSE IF my_style.font_size[1] = "Em" THEN my_style.font_size[2] * 16
                     ELSE 16
    IN  [pt_size |-> font_size,
         weight |-> 300,
         italic |-> my_style.font_style = "italic",
         oblique |-> my_style.font_style = "oblique",
         families |-> [i \in DOMAIN my_style.font_family |-> family(my_style.font_family[i])]]

\* what a call comes to: the value it returns, or fail!()
Returned(value) == [fail |-> FALSE, value |-> value]
Fail == [fail |-> TRUE]

\* RenderBoxBase::font_style of the box of a node
font_style(d, node) ==
    LET e == nearest_ancestor_element(d, node)
    IN  IF is_none(e) THEN Fail ELSE Returned(get_font_style(d[unwrap(e)].style))

\* mutant: an element that is floated or positioned hands the walk on to its parent
RECURSIVE get_propagated_text_decoration_past_out_of_flow(_, _)
get_propagated_text_decoration_past_out_of_flow(d, element) ==
    IF ~is_element(d, element)
    THEN IF is_none(parent_node(d, element)) THEN "none"
         ELSE get_propagated_text_decoration_past_out_of_flow(d, unwrap(parent_node(d, element)))
    ELSE LET text_decoration == d[element].style.text_decoration
         IN  IF text_decoration = "none"
             THEN IF is_none(parent_node(d, element)) THEN "none"
                  ELSE get_propagated_text_decoration_past_out_of_flow(
                           d, unwrap(parent_node(d, element)))
             ELSE text_decoration

\* CSS 2.1 16.3.1: the propagated value of text-decoration
RECURSIVE get_propagated_text_decoration(_, _)
get_propagated_text_decoration(d, element) ==
    IF ~is_element(d, element)
    THEN IF is_none(parent_node(d, element)) THEN "none"
         ELSE get_propagated_text_decoration(d, unwrap(parent_node(d, element)))
    ELSE LET display_in_flow == d[element].style.display \notin {"inline-table", "inline-block"}
             position == d[element].style.position
             float == d[element].style.float
             in_flow == position = "static" /\ float = "none" /\ display_in_flow
             text_decoration == d[element].style.text_decoration
         IN  IF text_decoration = "none" /\ in_flow
             THEN IF is_none(parent_node(d, element)) THEN "none"
                  ELSE get_propagated_text_decoration(d, unwrap(parent_node(d, element)))
             ELSE text_decoration

\* RenderBoxBase::text_decoration of the box of a node
text_decoration(d, node) ==
    LET e == nearest_ancestor_element(d, node)
    IN  IF is_none(e) THEN Fail ELSE Returned(get_propagated_text_decoration(d, unwrap(e)))

\* ------------------------------------------------------------- render boxes
\* ImageHolder: the decoded image once the image cache has it, None before;
\* get_size and get_image answer at once, from what the holder has
get_image(holder) == holder
get_size(holder) ==
    IF is_some(get_image(holder))
    THEN Some(Size2D(unwrap(holder).width, unwrap(holder).height))
    ELSE None
unwrap_or(o, default) == IF is_some(o) THEN unwrap(o) ELSE default

\* A render box as RenderBoxBase::new and the constructor of its class make it
\* for a node: an unscanned box copies the text of its node and has nothing
\* cached, an image box has a holder with no image yet.  `guessed` stands for
\* what guess_width makes of the computed style.
RenderBox_new(d, class, node, guessed) ==
    [class |-> class, node |-> node,
     position |-> Rect(Point2D(0, 0), Size2D(0, 0)),
     border |-> 0,
     guessed |-> guessed,
     text |-> IF class = "UnscannedText" THEN d[node].data ELSE <<>>,
     font_style |-> None,
     text_decoration |-> None,
     image |-> None]

\* mutant: the width attribute or nothing, the holder is not asked
image_width_attribute_only(d, box) ==
    LET attr_width == IF is_some(get_attr(d, box.node, "width"))
                      THEN from_str(unwrap(get_attr(d, box.node, "width")))
                      ELSE None
    IN  from_px(IF is_some(attr_width) THEN unwrap(attr_width) ELSE 0)

\* mutant: the decoded width when the holder has a size, the attribute otherwise
image_width_decoded_first(d, box) ==
    LET attr_width == IF is_some(get_attr(d, box.node, "width"))
                      THEN from_str(unwrap(get_attr(d, box.node, "width")))
                      ELSE None
        px_width == IF is_some(get_size(box.image)) THEN unwrap(get_size(box.image)).width
                    ELSE unwrap_or(attr_width, 0)
    IN  from_px(px_width)

\* ImageRenderBox::image_width
image_width(d, box) ==
    LET attr_width == IF is_some(get_attr(d, box.node, "width"))
                      THEN from_str(unwrap(get_attr(d, box.node, "width")))
                      ELSE None
        px_width == IF is_some(attr_width) THEN unwrap(attr_width)
                    ELSE unwrap_or(get_size(box.image), Size2D(0, 0)).width
    IN  from_px(px_width)

\* ImageRenderBox::image_height
image_height(d, box) ==
    LET attr_height == IF is_some(get_attr(d, box.node, "height"))
                       THEN from_str(unwrap(get_attr(d, box.node, "height")))
                       ELSE None
        px_height == IF is_some(attr_height) THEN unwrap(attr_height)
                     ELSE unwrap_or(get_size(box.image), Size2D(0, 0)).height
    IN  from_px(px_height)

\* The operations of the RenderBox trait, by the class of the box: what the
\* call comes to and the box after it.  (The width, height and split of a Text
\* box are the text splitting above.)
minimum_and_preferred_widths(d, box) ==
    CASE box.class = "Generic" ->
             [ret |-> Returned(<<box.guessed, box.guessed>>), box |-> box]
      [] box.class = "Image" ->
             [ret |-> Returned(<<box.guessed + image_width(d, box),
                                 box.guessed + image_width(d, box)>>),
              box |-> box]
      [] box.class = "UnscannedText" -> [ret |-> Fail, box |-> box]

box_height(d, box) ==
    CASE box.class = "Generic" -> [ret |-> Returned(0), box |-> box]
      [] box.class = "Image" ->
             LET size == get_size(box.image)
                 height == from_px(unwrap_or(size, Size2D(0, 0)).height)
             IN  [ret |-> Returned(height),
                  box |-> [box EXCEPT !.position.size.height = height]]
      [] box.class = "UnscannedText" -> [ret |-> Fail, box |-> box]

\* mutant: an unscanned box takes assign_width as a text box does, as done already
assign_width_preinitialized(d, box) ==
    CASE box.class = "Generic" ->
             [ret |-> Returned(<<>>),
              box |-> [box EXCEPT !.position.size.width = from_px(45)]]
      [] box.class = "Image" ->
             [ret |-> Returned(<<>>),
              box |-> [box EXCEPT !.position.size.width = image_width(d, box)]]
      [] box.class = "UnscannedText" -> [ret |-> Returned(<<>>), box |-> box]

assign_width(d, box) ==
    CASE box.class = "Generic" ->
             [ret |-> Returned(<<>>),
              box |-> [box EXCEPT !.position.size.width = from_px(45)]]
      [] box.class = "Image" ->
             [ret |-> Returned(<<>>),
              box |-> [box EXCEPT !.position.size.width = image_width(d, box)]]
      [] box.class = "UnscannedText" -> [ret |-> Fail, box |-> box]

box_split_to_width(d, box) ==
    CASE box.class \in {"Generic", "Image"} ->
             [ret |-> Returned("CannotSplit"), box |-> box]
      [] box.class = "UnscannedText" -> [ret |-> Fail, box |-> box]

is_whitespace_only(d, box) ==
    IF box.class = "UnscannedText"
    THEN [ret |-> Returned(str_is_whitespace(box.text)), box |-> box]
    ELSE [ret |-> Returned(FALSE), box |-> box]

\* mutant: two unscanned boxes merge when their font styles are equal
can_merge_with_box_font_only(d, self, other) ==
    IF self.class = "UnscannedText" /\ other.class = "UnscannedText"
    THEN LET this_font == font_style(d, self.node)
             other_font == font_style(d, other.node)
         IN  IF this_font.fail \/ other_font.fail THEN Fail
             ELSE Returned(this_font.value = other_font.value)
    ELSE Returned(FALSE)

\* can_merge_with_box: of an unscanned box, and the default of the trait; the
\* text decorations are looked at once the font styles are found equal
can_merge_with_box(d, self, other) ==
    IF self.class = "UnscannedText" /\ other.class = "UnscannedText"
    THEN LET this_font == font_style(d, self.node)
             other_font == font_style(d, other.node)
             this_decoration == text_decoration(d, self.node)
             other_decoration == text_decoration(d, other.node)
         IN  IF this_font.fail \/ other_font.fail THEN Fail
             ELSE IF this_font.value # other_font.value THEN Returned(FALSE)
             ELSE IF this_decoration.fail \/ other_decoration.fail THEN Fail
             ELSE Returned(this_decoration.value = other_decoration.value)
    ELSE Returned(FALSE)

\* font_style and text_decoration as the HEAD side of the merge in box.rs has
\* them: an unscanned box answers from its cache once it is filled, and fills
\* it when it computes; `computed` tells whether the ancestors were walked
font_style_cached(d, box) ==
    IF box.class = "UnscannedText" /\ is_some(box.font_style)
    THEN [ret |-> Returned(unwrap(box.font_style)), box |-> box, computed |-> FALSE]
    ELSE LET ret == font_style(d, box.node)
         IN  [ret |-> ret,
              box |-> IF box.class = "UnscannedText" /\ ~ret.fail
                      THEN [box EXCEPT !.font_style = Some(ret.value)] ELSE box,
              computed |-> TRUE]

text_decoration_cached(d, box) ==
    IF box.class = "UnscannedText" /\ is_some(box.text_decoration)
    THEN [ret |-> Returned(unwrap(box.text_decoration)), box |-> box, computed |-> FALSE]
    ELSE LET ret == text_decoration(d, box.node)
         IN  [ret |-> ret,
              box |-> IF box.class = "UnscannedText" /\ ~ret.fail
                      THEN [box EXCEPT !.text_decoration = Some(ret.value)] ELSE box,
              computed |-> TRUE]

\* the box as build_display_list looks at it: its background is that of its
\* nearest ancestor element, its image what the holder has now
painted(d, box) ==
    [class |-> box.class, position |-> box.position,
     background_alpha |-> d[unwrap(nearest_ancestor_element(d, box.node))].style.background_alpha,
     border |-> box.border,
     image |-> is_some(get_image(box.image))]

\* ------------------------------------------- the operations on a render box
\* The tree the boxes are made for: a root, an element in it, an element in
\* that (a span, or an img with its attributes), and two text nodes, one in
\* each of the inner elements.
Dom(root_kind, s1, s2, s3, attrs, t4, t5) ==
    << Node(0, root_kind, <<>>, NoAttrs, s1),
       Node(1, "Element", <<>>, NoAttrs, s2),
       Node(2, "Element", <<>>, attrs, s3),
       Node(2, "Text", t4, NoAttrs, Plain),
       Node(3, "Text", t5, NoAttrs, Plain) >>

Texts == { <<>>, <<" ">>, <<"a">>, <<" ", "a">> }

\* the boxes one is asked to merge with: one of each class, and an unscanned
\* box of each text node
OtherBoxes(d) ==
    { RenderBox_new(d, "UnscannedText", 4, 0), RenderBox_new(d, "UnscannedText", 5, 0),
      RenderBox_new(d, "Text", 5, 0), RenderBox_new(d, "Generic", 2, 0),
      RenderBox_new(d, "Image", 3, 0) }

\* An unscanned box of the first text node, or a generic box of the element it
\* is in, where the flow has put it (or nowhere yet); the flow draws all it has.
InitBox ==
    /\ run = <<>>
    /\ boxes = <<>>
    /\ split = NoSplit
    /\ \E head \in BOOLEAN :
           flow = [dirty |-> Rect(Point2D(0, 0), Size2D(3, 3)), offset |-> Point2D(0, 0),
                   debug |-> FALSE, head |-> head]
    /\ list = <<>>
    /\ build = NoBuild
    /\ failed = FALSE
    /\ \E alpha \in 0..1, t4 \in Texts :
           dom = Dom("Element", Plain, [Plain EXCEPT !.background_alpha = alpha], Plain,
                     NoAttrs, t4, <<"a">>)
    /\ \E form \in { <<"UnscannedText", 4>>, <<"Generic", 2>> }, guessed \in Guesses,
          size \in 0..1 :
           render_boxes = << [RenderBox_new(dom, form[1], form[2], guessed)
                                 EXCEPT !.position.size = Size2D(size, size)] >>
    /\ call = NoCall
    /\ arcs = <<>>
    /\ refs = <<>>
    /\ context = <<>>
    /\ css_msg_port = <<>> /\ js_msg_port = <<>> /\ discovery_port = <<>>
    /\ parser = NoTask /\ css_listener = NoTask /\ js_listener = NoTask
    /\ textinput = NoTextInput

\* a call of an operation on box b: what it returned and the box it left
BoxCall(op, b, other, res, computed) ==
    /\ ~failed
    /\ call' = [op |-> op, box |-> b, other |-> other, before |-> render_boxes[b],
                ret |-> res.ret, computed |-> computed]
    /\ render_boxes' = [render_boxes EXCEPT ![b] = res.box]
    /\ failed' = res.ret.fail
    /\ UNCHANGED <<run, boxes, split, flow, list, build, dom, arcs, refs,
                   context, parse_vars, textinput>>

MinimumAndPreferredWidths(b) ==
    BoxCall("minimum_and_preferred_widths", b, None,
            minimum_and_preferred_widths(dom, render_boxes[b]), {})

BoxHeight(b) ==
    BoxCall("box_height", b, None, box_height(dom, render_boxes[b]), {})

AssignWidth(b) ==
    BoxCall("assign_width", b, None, assign_width(dom, render_boxes[b]), {})

BoxSplitToWidth(b) ==
    BoxCall("split_to_width", b, None, box_split_to_width(dom, render_boxes[b]), {})

IsWhitespaceOnly(b) ==
    BoxCall("is_whitespace_only", b, None, is_whitespace_only(dom, render_boxes[b]), {})

\* can_merge_with_box goes to RenderBoxBase for the styles of both boxes, which
\* walks the ancestors for each style it is asked for
CanMergeWithBox(b, other) ==
    LET ret == can_merge_with_box(dom, render_boxes[b], other)
        unscanned == render_boxes[b].class = "UnscannedText" /\ other.class = "UnscannedText"
    IN  BoxCall("can_merge_with_box", b, Some(other),
                [ret |-> ret, box |-> render_boxes[b]],
                IF ~unscanned THEN {}
                ELSE IF ~ret.fail
                        /\ font_style(dom, render_boxes[b].node) = font_style(dom, other.node)
                THEN {"font_style", "text_decoration"}
                ELSE {"font_style"})

\* font_style of a box: of its RenderBoxBase, or as the HEAD side of the merge
\* has it
FontStyle(b) ==
    IF flow.head
    THEN LET res == font_style_cached(dom, render_boxes[b])
         IN  BoxCall("font_style", b, None, res,
                     IF res.computed THEN {"font_style"} ELSE {})
    ELSE BoxCall("font_style", b, None,
                 [ret |-> font_style(dom, render_boxes[b].node), box |-> render_boxes[b]],
                 {"font_style"})

TextDecoration(b) ==
    IF flow.head
    THEN LET res == text_decoration_cached(dom, render_boxes[b])
         IN  BoxCall("text_decoration", b, None, res,
                     IF res.computed THEN {"text_decoration"} ELSE {})
    ELSE BoxCall("text_decoration", b, None,
                 [ret |-> text_decoration(dom, render_boxes[b].node), box |-> render_boxes[b]],
                 {"text_decoration"})

\* build_display_list of box b, into the list of the flow
BuildBoxDisplayList(b) ==
    \E res \in { build_display_list(painted(dom, render_boxes[b]), flow.dirty, flow.offset,
                                    flow.debug, list) } :
        /\ ~failed
        /\ Len(list) < MaxItems
        /\ call' = [op |-> "build_display_list", box |-> b, other |-> None,
                    before |-> render_boxes[b],
                    ret |-> IF res.failed THEN Fail ELSE Returned(<<>>), computed |-> {}]
        /\ build' = [called |-> TRUE, box |-> painted(dom, render_boxes[b]), before |-> list]
        /\ list' = res.list
        /\ failed' = res.failed
        /\ UNCHANGED <<run, boxes, split, flow, dom, render_boxes, arcs, refs,
                       context, parse_vars, textinput>>

NextBox ==
    \E b \in 1..Len(render_boxes) :
        \/ MinimumAndPreferredWidths(b)
        \/ BoxHeight(b)
        \/ AssignWidth(b)
        \/ BoxSplitToWidth(b)
        \/ IsWhitespaceOnly(b)
        \/ \E other \in OtherBoxes(dom) : CanMergeWithBox(b, other)
        \/ FontStyle(b)
        \/ TextDecoration(b)
        \/ BuildBoxDisplayList(b)

SpecBox == InitBox /\ [][NextBox]_vars

\* ----------------------------------- properties of the operations on a box
\* the box the last call was made on, as it was before the call
Called(op) == call.op = op
OnUnscanned == call.op # "none" /\ call.before.class = "UnscannedText"

\* the operations every class of box has
ContractOperations ==
    {"minimum_and_preferred_widths", "box_height", "assign_width", "split_to_width",
     "is_whitespace_only", "can_merge_with_box", "build_display_list"}

\* C11 (as claimed): on an unscanned box the four layout queries fail, and
\* is_whitespace_only and can_merge_with_box are the only operations of the
\* contract that return normally.
C11_OnlyTwoReturn ==
    OnUnscanned =>
        /\ call.op \in {"minimum_and_preferred_widths", "box_height", "assign_width",
                        "split_to_width"} => failed
        /\ (call.op \in ContractOperations /\ ~failed) =>
               call.op \in {"is_whitespace_only", "can_merge_with_box"}

\* C11 (amended): on an unscanned box minimum_and_preferred_widths, box_height,
\* assign_width and split_to_width fail and leave no value; is_whitespace_only
\* and can_merge_with_box return; and build_display_list returns as well, with
\* nothing appended, when the box does not intersect the dirty rect.
C11_LayoutQueriesFail ==
    (OnUnscanned /\ call.op \in ContractOperations) =>
        /\ call.op \in {"minimum_and_preferred_widths", "box_height", "assign_width",
                        "split_to_width"} => (failed /\ call.ret = Fail)
        /\ call.op \in {"is_whitespace_only", "can_merge_with_box"} => ~failed
        /\ call.op = "build_display_list" =>
               /\ failed <=> ~Apart(BuildBounds, flow.dirty)
               /\ list = build.before
        /\ render_boxes[call.box] = call.before

\* C11 witness: box_height was called on an unscanned box, and the task failed.
C11_Witness ==
    OnUnscanned /\ Called("box_height") /\ failed

\* the last call asked an unscanned box for its font style, or its text
\* decoration: by the query itself, or by can_merge_with_box with another
\* unscanned box (which asks for the decoration once the fonts are equal)
AskedFontStyle ==
    /\ OnUnscanned /\ ~failed
    /\ \/ Called("font_style")
       \/ Called("can_merge_with_box") /\ call.other[1].class = "UnscannedText"

AskedTextDecoration ==
    /\ OnUnscanned /\ ~failed
    /\ \/ Called("text_decoration")
       \/ /\ Called("can_merge_with_box") /\ call.other[1].class = "UnscannedText"
          /\ font_style(dom, call.before.node) = font_style(dom, call.other[1].node)

\* C19 (as claimed): a query that asks an unscanned box for its font style (its
\* text decoration) leaves the result stored in the box, and walks the ancestors
\* for it only when the box had none stored.
C19_ComputedAtMostOnce ==
    /\ AskedFontStyle =>
           /\ render_boxes[call.box].font_style # None
           /\ call.before.font_style # None => "font_style" \notin call.computed
    /\ AskedTextDecoration =>
           /\ render_boxes[call.box].text_decoration # None
           /\ call.before.text_decoration # None => "text_decoration" \notin call.computed

\* --------------------------------------------------------- image boxes
\* the values of a width or height attribute: none, a number, a negative
\* number, no number, the empty string
AttrValues ==
    { None, Some(<<"1", "0">>), Some(<<"-", "5">>), Some(<<"1", "0", "p", "x">>), Some(<<>>) }

\* the images the cache decodes
Images == { [width |-> 3, height |-> 4], [width |-> 0, height |-> 7] }

\* the box of an img element, with the attributes the element has; its holder
\* has no image yet
InitImage ==
    /\ run = <<>>
    /\ boxes = <<>>
    /\ split = NoSplit
    /\ flow = [debug |-> FALSE, head |-> FALSE]
    /\ list = <<>>
    /\ build = NoBuild
    /\ failed = FALSE
    /\ \E width \in AttrValues, height \in { None, Some(<<"9">>) } :
           dom = Dom("Element", Plain, Plain, Plain, [width |-> width, height |-> height],
                     <<"a">>, <<"a">>)
    /\ \E guessed \in Guesses :
           render_boxes = << RenderBox_new(dom, "Image", 3, guessed) >>
    /\ call = NoCall
    /\ arcs = <<>>
    /\ refs = <<>>
    /\ context = <<>>
    /\ css_msg_port = <<>> /\ js_msg_port = <<>> /\ discovery_port = <<>>
    /\ parser = NoTask /\ css_listener = NoTask /\ js_listener = NoTask
    /\ textinput = NoTextInput

\* the image cache has the image decoded: from now on the holder has it
ImageReady(b, image) ==
    /\ ~failed
    /\ render_boxes[b].class = "Image"
    /\ is_none(render_boxes[b].image)
    /\ render_boxes' = [render_boxes EXCEPT ![b].image = Some(image)]
    /\ call' = [op |-> "image_ready", box |-> b, other |-> None,
                before |-> render_boxes[b], ret |-> Returned(<<>>), computed |-> {}]
    /\ UNCHANGED <<run, boxes, split, flow, list, build, failed, dom, arcs, refs,
                   context, parse_vars, textinput>>

ImageWidth(b) ==
    BoxCall("image_width", b, None,
            [ret |-> Returned(image_width(dom, render_boxes[b])), box |-> render_boxes[b]], {})

ImageHeight(b) ==
    BoxCall("image_height", b, None,
            [ret |-> Returned(image_height(dom, render_boxes[b])), box |-> render_boxes[b]], {})

NextImage ==
    \E b \in 1..Len(render_boxes) :
        \/ \E image \in Images : ImageReady(b, image)
        \/ ImageWidth(b)
        \/ ImageHeight(b)
        \/ MinimumAndPreferredWidths(b)
        \/ BoxHeight(b)
        \/ AssignWidth(b)
        \/ BoxSplitToWidth(b)
        \/ IsWhitespaceOnly(b)
        \/ \E other \in OtherBoxes(dom) : CanMergeWithBox(b, other)

SpecImage == InitImage /\ [][NextImage]_vars

\* ------------------------------------------------ properties of image boxes
\* the last call was made on an image box; the decoded size its holder had then
OnImage == call.op # "none" /\ call.before.class = "Image"
DecodedThen ==
    IF call.before.image = None THEN [width |-> 0, height |-> 0]
    ELSE [width |-> call.before.image[1].width, height |-> call.before.image[1].height]

\* C16: every width or height query on an image box whose element has no
\* width and no height attribute returns, and reports 0 (on top of the guessed
\* width) when the holder had no image at the call, and the decoded width or
\* height, in app units, when the holder had one.
C16_ZeroUntilResolved ==
    (OnImage /\ dom[call.before.node].attrs = NoAttrs) =>
        /\ ~failed
        /\ Called("image_width") => call.ret.value = 60 * DecodedThen.width
        /\ Called("image_height") => call.ret.value = 60 * DecodedThen.height
        /\ Called("minimum_and_preferred_widths") =>
               call.ret.value = << call.before.guessed + 60 * DecodedThen.width,
                                   call.before.guessed + 60 * DecodedThen.width >>
        /\ Called("assign_width") =>
               render_boxes[call.box].position.size.width = 60 * DecodedThen.width
        /\ Called("box_height") =>
               /\ call.ret.value = 60 * DecodedThen.height
               /\ render_boxes[call.box].position.size.height = 60 * DecodedThen.height

\* C16 witness: a box with no attributes, its width 0 still, reports the decoded
\* height now that the holder has the image.
C16_Witness ==
    /\ OnImage /\ dom[call.before.node].attrs = NoAttrs
    /\ Called("box_height")
    /\ call.before.image # None
    /\ call.ret.value = 60 * 4
    /\ render_boxes[call.box].position.size.width = 0

\* the number a width attribute stands for, where it stands for one
AttrNumber(value) ==
    IF value = Some(<<"1", "0">>) THEN Some(10)
    ELSE IF value = Some(<<"-", "5">>) THEN Some(0 - 5)
    ELSE None

\* C17: the width an image box reports is that of the width attribute where the
\* element has one that is a number; else the decoded width where the holder
\* has an image; else 0.  No query fails.
C17_WidthPrecedence ==
    OnImage =>
        LET attribute == AttrNumber(dom[call.before.node].attrs.width)
            px == IF attribute # None THEN attribute[1] ELSE DecodedThen.width
        IN  /\ ~failed
            /\ Called("image_width") => call.ret.value = 60 * px
            /\ Called("minimum_and_preferred_widths") =>
                   call.ret.value = << call.before.guessed + 60 * px,
                                       call.before.guessed + 60 * px >>
            /\ Called("assign_width") =>
                   render_boxes[call.box].position.size.width = 60 * px

\* C17 witness: the element has width="10", the holder an image 3 wide: the box
\* reports 10 pixels.
C17_Witness ==
    /\ OnImage /\ Called("image_width")
    /\ dom[call.before.node].attrs.width = Some(<<"1", "0">>)
    /\ call.before.image # None /\ call.before.image[1].width = 3
    /\ call.ret.value = 600

\* the nodes from the root down to node k
RECURSIVE RootPath(_, _)
RootPath(d, k) == IF d[k].parent = 0 THEN <<k>> ELSE Append(RootPath(d, d[k].parent), k)

\* ------------------------------------------------ the styles of the boxes
\* computed styles of elements: each declares one thing; Em1 and FamilySerif
\* come to the font of Plain by another way
Styles ==
    { Plain,
      [Plain EXCEPT !.text_decoration = "underline"],
      [Plain EXCEPT !.text_decoration = "overline"],
      [Plain EXCEPT !.float = "left"],
      [Plain EXCEPT !.position = "absolute"],
      [Plain EXCEPT !.display = "inline-block"],
      [Plain EXCEPT !.display = "inline-table"],
      [Plain EXCEPT !.display = "block"],
      [Plain EXCEPT !.font_style = "italic"],
      [Plain EXCEPT !.font_size = <<"Em", 1>>],
      [Plain EXCEPT !.font_size = <<"Px", 12>>],
      [Plain EXCEPT !.font_family = << <<"FamilyName", "serif">> >>] }

\* A box of one of the nodes of a tree whose elements have any of the styles;
\* the root is an element, with or without a decoration, or a node of another
\* kind.
InitStyle ==
    /\ run = <<>>
    /\ boxes = <<>>
    /\ split = NoSplit
    /\ \E head \in BOOLEAN : flow = [debug |-> FALSE, head |-> head]
    /\ list = <<>>
    /\ build = NoBuild
    /\ failed = FALSE
    /\ \E root \in { <<"Element", Plain>>, <<"Element", [Plain EXCEPT !.text_decoration = "underline"]>>,
                     <<"Other", Plain>> },
          s2 \in Styles, s3 \in Styles :
           dom = Dom(root[1], root[2], s2, s3, NoAttrs, <<"a">>, <<"a">>)
    /\ \E box \in OtherBoxes(dom) : render_boxes = << box >>
    /\ call = NoCall
    /\ arcs = <<>>
    /\ refs = <<>>
    /\ context = <<>>
    /\ css_msg_port = <<>> /\ js_msg_port = <<>> /\ discovery_port = <<>>
    /\ parser = NoTask /\ css_listener = NoTask /\ js_listener = NoTask
    /\ textinput = NoTextInput

NextStyle ==
    \E b \in 1..Len(render_boxes) :
        \/ FontStyle(b)
        \/ TextDecoration(b)
        \/ \E other \in OtherBoxes(dom) : CanMergeWithBox(b, other)

SpecStyle == InitStyle /\ [][NextStyle]_vars

\* ---------------------------------------------------- properties of styles
\* C18: can_merge_with_box returns, and returns true exactly when both boxes
\* are unscanned text boxes whose font styles are equal and whose propagated
\* text decorations are equal; so it returns false on a generic, image or text
\* box, and for any other box that is none of the unscanned ones.
C18_MergeIffSameStyles ==
    Called("can_merge_with_box") =>
        LET self == call.before
            other == call.other[1]
        IN  /\ ~failed
            /\ call.ret.value =
                   (/\ self.class = "UnscannedText"
                    /\ other.class = "UnscannedText"
                    /\ font_style(dom, self.node).value = font_style(dom, other.node).value
                    /\ text_decoration(dom, self.node).value
                           = text_decoration(dom, other.node).value)

\* C18 witness: two unscanned boxes under elements whose styles are declared
\* differently, but come to the same font and the same decoration, can merge.
C18_Witness ==
    /\ Called("can_merge_with_box") /\ OnUnscanned
    /\ call.other[1].class = "UnscannedText"
    /\ call.other[1].node # call.before.node
    /\ dom[2].style # dom[3].style
    /\ call.ret.value = TRUE

\* an element that is out of flow: not static, or floated, or an inline block
\* or table
OutOfFlow(style) ==
    \/ style.position # "static"
    \/ style.float # "none"
    \/ style.display \in {"inline-block", "inline-table"}

\* C20: text_decoration returns the decoration of the nearest element, among
\* the node of the box and its ancestors, that declares a decoration or is out
\* of flow; and none where there is no such element.
C20_PropagatedDecoration ==
    Called("text_decoration") =>
        LET path == RootPath(dom, call.before.node)
            stops == { i \in 1..Len(path) :
                         /\ is_element(dom, path[i])
                         /\ \/ dom[path[i]].style.text_decoration # "none"
                            \/ OutOfFlow(dom[path[i]].style) }
            nearest == CHOOSE i \in stops : \A j \in stops : j <= i
        IN  /\ ~failed
            /\ call.ret.value = IF stops = {} THEN "none"
                                ELSE dom[path[nearest]].style.text_decoration

\* C20 witness: the element of the text is plain, the one around it floated and
\* with no decoration, the root underlined: the text has no decoration.
C20_Witness ==
    /\ Called("text_decoration")
    /\ call.before.node = 5
    /\ dom[3].style = Plain
    /\ dom[2].style.float = "left"
    /\ is_element(dom, 1) /\ dom[1].style.text_decoration = "underline"
    /\ call.ret.value = "none"

\* ------------------------------------------------ layout data of the nodes
\* LayoutData::new(): no style, no display list, no range
LayoutData_new == [style |-> None, boxes |-> [display_list |-> None, range |-> None]]

has_layout_data(d, node) == is_some(d[node].layout_data)

\* TreeNodeRef::traverse_preorder: the node, then the subtrees of its children
\* in the order they were appended in (the order of their indices)
RECURSIVE traverse_preorder(_, _)
traverse_preorder(d, node) ==
    LET is_child(k) == d[k].parent = node
        children == SelectSeq([k \in 1..Len(d) |-> k], is_child)
        below[i \in 0..Len(children)] ==
            IF i = 0 THEN <<>> ELSE below[i - 1] \o traverse_preorder(d, children[i])
    IN  <<node>> \o below[Len(children)]

\* mutant: a node that has layout data is given a new record all the same
initialize_layout_data_anew(d, a, node) ==
    [ret |-> Some(Len(a) + 1),
     dom |-> [d EXCEPT ![node].layout_data = Some(Len(a) + 1)],
     arcs |-> Append(a, LayoutData_new)]

\* initialize_layout_data: what it returns (the new arc, or None), the nodes and
\* the records after it; an arc is the index of its record in arcs
initialize_layout_data(d, a, node) ==
    IF has_layout_data(d, node)
    THEN [ret |-> None,
          dom |-> d,
          arcs |-> [a EXCEPT ![unwrap(d[node].layout_data)].boxes.display_list = None,
                             ![unwrap(d[node].layout_data)].boxes.range = None]]
    ELSE [ret |-> Some(Len(a) + 1),
          dom |-> [d EXCEPT ![node].layout_data = Some(Len(a) + 1)],
          arcs |-> Append(a, LayoutData_new)]

\* mutant: every node visited has its record pushed
initialize_style_for_subtree_all(d, a, r, node) ==
    LET order == traverse_preorder(d, node)
        st[i \in 0..Len(order)] ==
            IF i = 0 THEN [dom |-> d, arcs |-> a, refs |-> r]
            ELSE LET res == initialize_layout_data(st[i - 1].dom, st[i - 1].arcs, order[i])
                 IN  [dom |-> res.dom, arcs |-> res.arcs,
                      refs |-> Append(st[i - 1].refs, unwrap(res.dom[order[i]].layout_data))]
    IN  st[Len(order)]

\* initialize_style_for_subtree: the nodes, the records and the collector after it
initialize_style_for_subtree(d, a, r, node) ==
    LET order == traverse_preorder(d, node)
        st[i \in 0..Len(order)] ==
            IF i = 0 THEN [dom |-> d, arcs |-> a, refs |-> r]
            ELSE LET res == initialize_layout_data(st[i - 1].dom, st[i - 1].arcs, order[i])
                 IN  [dom |-> res.dom, arcs |-> res.arcs,
                      refs |-> IF is_some(res.ret) THEN Append(st[i - 1].refs, unwrap(res.ret))
                               ELSE st[i - 1].refs]
    IN  st[Len(order)]

\* the trees: the parent of each node (0 for the root); the children of a node
\* are in the order of their indices
Trees == { <<0>>, <<0, 1>>, <<3, 3, 0>>, <<0, 3, 1>> }

\* a tree as the parser hands it over: no node has layout data
InitAux ==
    /\ run = <<>>
    /\ boxes = <<>>
    /\ split = NoSplit
    /\ flow = NoFlow
    /\ list = <<>>
    /\ build = NoBuild
    /\ failed = FALSE
    /\ \E tree \in Trees :
           dom = [k \in 1..Len(tree) |-> Node(tree[k], "Element", <<>>, NoAttrs, Plain)]
    /\ render_boxes = <<>>
    /\ call = NoCall
    /\ arcs = <<>>
    /\ refs = <<>>
    /\ context = <<>>
    /\ css_msg_port = <<>> /\ js_msg_port = <<>> /\ discovery_port = <<>>
    /\ parser = NoTask /\ css_listener = NoTask /\ js_listener = NoTask
    /\ textinput = NoTextInput

InitializeLayoutData(node) ==
    \E res \in { initialize_layout_data(dom, arcs, node) } :
        /\ call' = [op |-> "initialize_layout_data", node |-> node, ret |-> res.ret,
                    before |-> [dom |-> dom, arcs |-> arcs, refs |-> refs]]
        /\ dom' = res.dom
        /\ arcs' = res.arcs
        /\ UNCHANGED <<run, boxes, split, flow, list, build, failed, render_boxes, refs,
                       context, parse_vars, textinput>>

InitializeStyleForSubtree(node) ==
    \E res \in { initialize_style_for_subtree(dom, arcs, refs, node) } :
        /\ call' = [op |-> "initialize_style_for_subtree", node |-> node, ret |-> None,
                    before |-> [dom |-> dom, arcs |-> arcs, refs |-> refs]]
        /\ dom' = res.dom
        /\ arcs' = res.arcs
        /\ refs' = res.refs
        /\ UNCHANGED <<run, boxes, split, flow, list, build, failed, render_boxes,
                       context, parse_vars, textinput>>

\* a layout pass over a node that has layout data: it stores the style, the
\* display list and the range of the boxes of the node in its record
StoreLayout(node) ==
    /\ has_layout_data(dom, node)
    /\ arcs' = [arcs EXCEPT ![unwrap(dom[node].layout_data)] =
                    [style |-> Some("style"),
                     boxes |-> [display_list |-> Some("list"), range |-> Some("range")]]]
    /\ call' = [op |-> "store", node |-> node, ret |-> None,
                before |-> [dom |-> dom, arcs |-> arcs, refs |-> refs]]
    /\ UNCHANGED <<run, boxes, split, flow, list, build, failed, dom, render_boxes, refs,
                   context, parse_vars, textinput>>

NextAux ==
    \E node \in 1..Len(dom) :
        \/ InitializeLayoutData(node)
        \/ InitializeStyleForSubtree(node)
        \/ StoreLayout(node)

SpecAux == InitAux /\ [][NextAux]_vars

\* ------------------------------------------------ properties of layout data
\* the record of a node, in given nodes and records
RecordOf(d, a, node) == a[unwrap(d[node].layout_data)]

\* C12: a call of initialize_layout_data on a node with no record allocates a
\* new, empty record, attaches it and returns it; a call on a node that has a
\* record returns None, leaves the same record attached, with its display list
\* and range None and its style as it was; no other node or record changes.
C12_ReentrantPerNode ==
    Called("initialize_layout_data") =>
        LET node == call.node
            was == call.before
        IN  /\ \A k \in 1..Len(dom) : k # node => dom[k] = was.dom[k]
            /\ \A id \in 1..Len(was.arcs) :
                   (was.dom[node].layout_data # Some(id)) => arcs[id] = was.arcs[id]
            /\ refs = was.refs
            /\ IF has_layout_data(was.dom, node)
               THEN /\ call.ret = None
                    /\ dom[node].layout_data = was.dom[node].layout_data
                    /\ Len(arcs) = Len(was.arcs)
                    /\ RecordOf(dom, arcs, node).boxes.display_list = None
                    /\ RecordOf(dom, arcs, node).boxes.range = None
                    /\ RecordOf(dom, arcs, node).style = RecordOf(was.dom, was.arcs, node).style
               ELSE /\ call.ret = Some(Len(was.arcs) + 1)
                    /\ dom[node].layout_data = call.ret
                    /\ Len(arcs) = Len(was.arcs) + 1
                    /\ RecordOf(dom, arcs, node) = LayoutData_new

\* C12 witness: a call on a node whose record held a style, a display list and a
\* range: the record is attached still, the style is kept.
C12_Witness ==
    /\ Called("initialize_layout_data")
    /\ has_layout_data(call.before.dom, call.node)
    /\ is_some(RecordOf(call.before.dom, call.before.arcs, call.node).boxes.display_list)
    /\ is_some(RecordOf(dom, arcs, call.node).style)

InSubtree(d, node, k) == \E i \in 1..Len(RootPath(d, k)) : RootPath(d, k)[i] = node

\* a comes before b in preorder: a is an ancestor of b, or where their paths
\* part the path of a goes to the earlier child
Precedes(d, a, b) ==
    LET pa == RootPath(d, a)
        pb == RootPath(d, b)
    IN  /\ a # b
        /\ \/ Len(pa) < Len(pb) /\ SubSeq(pb, 1, Len(pa)) = pa
           \/ \E i \in 1..Min(Len(pa), Len(pb)) :
                  /\ SubSeq(pa, 1, i - 1) = SubSeq(pb, 1, i - 1)
                  /\ pa[i] < pb[i]

\* what the last call appended to the collector, and the node of an arc
Added == SubSeq(refs, Len(call.before.refs) + 1, Len(refs))
Owner(id) == CHOOSE k \in 1..Len(dom) : dom[k].layout_data = Some(id)

\* C13: a call of initialize_style_for_subtree appends to the collector the new
\* records of exactly the nodes of the subtree that had no record, once each and
\* in preorder; what the collector held stays in front; afterwards every node of
\* the subtree has a record, so a second call appends nothing; the nodes outside
\* the subtree are as they were.
C13_CollectsNewRecordsInPreorder ==
    Called("initialize_style_for_subtree") =>
        LET node == call.node
            was == call.before
            fresh == { k \in 1..Len(dom) :
                         InSubtree(was.dom, node, k) /\ ~has_layout_data(was.dom, k) }
        IN  /\ Len(refs) >= Len(was.refs)
            /\ SubSeq(refs, 1, Len(was.refs)) = was.refs
            /\ Len(Added) = Cardinality(fresh)
            /\ \A k \in fresh : \E i \in 1..Len(Added) : dom[k].layout_data = Some(Added[i])
            /\ \A i \in 1..Len(Added) : Added[i] > Len(was.arcs) /\ Added[i] <= Len(arcs)
            /\ \A i, j \in 1..Len(Added) :
                   i < j => Precedes(dom, Owner(Added[i]), Owner(Added[j]))
            /\ \A k \in 1..Len(dom) :
                   IF InSubtree(was.dom, node, k)
                   THEN has_layout_data(dom, k)
                        /\ (has_layout_data(was.dom, k) =>
                                dom[k].layout_data = was.dom[k].layout_data)
                   ELSE dom[k] = was.dom[k]
            /\ (fresh = {}) => refs = was.refs

\* C13 witness: a call on a subtree of which one node had a record, with a
\* record in the collector already, appended two records, the first of them of
\* the node with the higher index.
C13_Witness ==
    /\ Called("initialize_style_for_subtree")
    /\ Len(call.before.refs) > 0
    /\ \E k \in 1..Len(dom) :
           InSubtree(dom, call.node, k) /\ has_layout_data(call.before.dom, k)
    /\ Len(Added) = 2
    /\ Owner(Added[1]) > Owner(Added[2])

\* ------------------------------------------- the nearest ancestor element
\* the nodes the loop of nearest_ancestor_element tests with is_element, in
\* the order it comes to them
RECURSIVE nodes_tested(_, _)
nodes_tested(d, node) ==
    IF is_element(d, node) THEN <<node>>
    ELSE IF is_none(parent_node(d, node)) THEN <<node>>
    ELSE <<node>> \o nodes_tested(d, unwrap(parent_node(d, node)))


\* A box of any node of a tree of five nodes, of which any may be an element
\* or not: so of a node that is an element, of one with an element above it,
\* and of one with none.
InitAncestor ==
    /\ run = <<>>
    /\ boxes = <<>>
    /\ split = NoSplit
    /\ flow = [debug |-> FALSE, head |-> FALSE]
    /\ list = <<>>
    /\ build = NoBuild
    /\ failed = FALSE
    /\ \E k1, k2, k3 \in {"Element", "Doctype"}, k4, k5 \in {"Element", "Text", "Comment"} :
           dom = << Node(0, k1, <<>>, NoAttrs, Plain),
                    Node(1, k2, <<>>, NoAttrs, Plain),
                    Node(2, k3, <<>>, NoAttrs, Plain),
                    Node(2, k4, <<>>, NoAttrs, Plain),
                    Node(3, k5, <<>>, NoAttrs, Plain) >>
    /\ \E node \in 1..Len(dom) : render_boxes = << RenderBox_new(dom, "Generic", node, 0) >>
    /\ call = NoCall
    /\ arcs = <<>>
    /\ refs = <<>>
    /\ context = <<>>
    /\ css_msg_port = <<>> /\ js_msg_port = <<>> /\ discovery_port = <<>>
    /\ parser = NoTask /\ css_listener = NoTask /\ js_listener = NoTask
    /\ textinput = NoTextInput

\* nearest_ancestor_element of box b: the node it returns, or fail!()
NearestAncestorElement(b) ==
    \E e \in { nearest_ancestor_element(dom, render_boxes[b].node) } :
        BoxCall("nearest_ancestor_element", b, None,
                [ret |-> IF is_none(e) THEN Fail ELSE Returned(unwrap(e)),
                 box |-> render_boxes[b]],
                {})

NextAncestor ==
    \E b \in 1..Len(render_boxes) :
        \/ NearestAncestorElement(b)
        \/ FontStyle(b)
        \/ TextDecoration(b)

SpecAncestor == InitAncestor /\ [][NextAncestor]_vars

\* C21: nearest_ancestor_element returns the node of the box where that is an
\* element, and else the closest of its ancestors that is one; it fails exactly
\* when neither the node nor any ancestor is an element; and the walk tests no
\* more nodes than the node has ancestors, itself among them.
C21_NearestElementOrFail ==
    Called("nearest_ancestor_element") =>
        LET node == call.before.node
            path == RootPath(dom, node)
            elements == { i \in 1..Len(path) : is_element(dom, path[i]) }
            closest == CHOOSE i \in elements : \A j \in elements : j <= i
        IN  /\ call.ret.fail = (elements = {})
            /\ failed = call.ret.fail
            /\ ~call.ret.fail => call.ret.value = path[closest]
            /\ (is_element(dom, node) /\ ~call.ret.fail) => call.ret.value = node
            /\ Len(nodes_tested(dom, node)) <= Len(path)
            /\ render_boxes[call.box] = call.before

\* C21 witness: the box of a node three below the root, with no element on the
\* way up: the call failed.
C21_Witness ==
    /\ Called("nearest_ancestor_element")
    /\ call.before.node = 5
    /\ \A k \in {1, 2, 3, 5} : ~is_element(dom, k)
    /\ is_element(dom, 4)
    /\ call.ret.fail
    /\ failed

\* the walk went up past a node that is no element to the element above it
C21_Climbed ==
    /\ Called("nearest_ancestor_element")
    /\ call.before.node = 5
    /\ ~is_element(dom, 5) /\ ~is_element(dom, 3) /\ is_element(dom, 2)
    /\ ~call.ret.fail /\ call.ret.value = 2

\* --------------------------------------------- gfx/display_list.rs: the list
\* DisplayList::new
DisplayList_new == <<>>

\* BaseDisplayItem of an item: the bounds and the id of the box that made it
base(item) == [bounds |-> item.bounds, renderbox_uniq |-> item.renderbox_uniq]

\* mutant: the type tags of text and image items are exchanged
ty_text_for_image(item) ==
    CASE item.ty = "SolidColor" -> "SolidColorDisplayItemType"
      [] item.ty = "Text" -> "ImageDisplayItemType"
      [] item.ty = "Image" -> "TextDisplayItemType"
      [] item.ty = "Border" -> "BorderDisplayItemType"

\* DisplayItem::ty: the DisplayItemType of the variant
ty(item) ==
    CASE item.ty = "SolidColor" -> "SolidColorDisplayItemType"
      [] item.ty = "Text" -> "TextDisplayItemType"
      [] item.ty = "Image" -> "ImageDisplayItemType"
      [] item.ty = "Border" -> "BorderDisplayItemType"

\* DisplayList::keys, run to its end: the pairs the iterator yields
keys(l) ==
    [i \in 1..Len(l) |->
        << [renderbox_uniq |-> base(l[i]).renderbox_uniq, ty |-> ty(l[i])], l[i] >>]

\* DisplayItem::draw_into_context: the render context after the item is drawn;
\* a text item draws the text at its baseline and, where the run is
\* underlined, a bar of the width of the item below it
draw_item_into_context(item, render_context) ==
    CASE item.ty = "SolidColor" ->
             Append(render_context, [draw |-> "draw_solid_color", bounds |-> item.bounds])
      [] item.ty = "Text" ->
             LET font == item.text_run.font
                 origin == item.bounds.origin
                 baseline_origin == Point2D(origin.x, origin.y + font.ascent)
                 drawn == Append(render_context,
                                 [draw |-> "draw_text_into_context",
                                  baseline_origin |-> baseline_origin])
             IN  IF item.text_run.underline
                 THEN Append(drawn,
                             [draw |-> "draw_solid_color",
                              bounds |-> Rect(baseline_origin,
                                              Size2D(item.bounds.size.width,
                                                     font.underline_size))])
                 ELSE drawn
      [] item.ty = "Image" ->
             Append(render_context, [draw |-> "draw_image", bounds |-> item.bounds])
      [] item.ty = "Border" ->
             Append(render_context, [draw |-> "draw_border", bounds |-> item.bounds])

\* mutant: the items are drawn from the last to the first
draw_into_context_from_last(l, render_context) ==
    LET drawn[i \in 0..Len(l)] ==
            IF i = 0 THEN render_context
            ELSE draw_item_into_context(l[Len(l) + 1 - i], drawn[i - 1])
    IN  drawn[Len(l)]

\* DisplayList::draw_into_context: the render context after the loop
draw_into_context(l, render_context) ==
    LET drawn[i \in 0..Len(l)] ==
            IF i = 0 THEN render_context
            ELSE draw_item_into_context(l[i], drawn[i - 1])
    IN  drawn[Len(l)]

\* ids of boxes, and the runs of text items: underlined or not
Uniqs == 0..1
TextRuns == { [underline |-> u, font |-> [ascent |-> 1, underline_size |-> 1]] : u \in BOOLEAN }

\* the items handed to append_item: one of each variant, and the text items
\* of both runs
Items ==
    { [ty |-> "SolidColor", bounds |-> Rect(Point2D(0, 0), Size2D(1, 1)), renderbox_uniq |-> 0],
      [ty |-> "Image", bounds |-> Rect(Point2D(0, 0), Size2D(1, 1)), renderbox_uniq |-> 1],
      [ty |-> "Border", bounds |-> Rect(Point2D(0, 0), Size2D(1, 1)), renderbox_uniq |-> 1] }
    \cup { [ty |-> "Text", bounds |-> Rect(Point2D(0, 0), Size2D(1, 1)), renderbox_uniq |-> 0,
            text_run |-> r] : r \in TextRuns }

\* the boxes that build their items into the list: a generic box with a
\* background, a text box with a border, an image box with its image
ListBoxes ==
    { b \in Boxes : /\ b.position = Rect(Point2D(1, 1), Size2D(1, 1))
                    /\ \/ b.class = "Generic" /\ b.background_alpha = 1 /\ b.border = 0
                       \/ b.class = "Text" /\ b.background_alpha = 0 /\ b.border = 1
                       \/ b.class = "Image" /\ b.background_alpha = 0 /\ b.border = 0
                          /\ b.image }

\* an item as build_display_list makes it, with what the box gives it besides
\* the bounds: its id, and the run of a text box
of_box(item, uniq, text_run) ==
    IF "renderbox_uniq" \in DOMAIN item THEN item
    ELSE IF item.ty = "Text"
    THEN [ty |-> item.ty, bounds |-> item.bounds, renderbox_uniq |-> uniq,
          text_run |-> text_run]
    ELSE [ty |-> item.ty, bounds |-> item.bounds, renderbox_uniq |-> uniq]

\* A new display list, and a render context nothing is drawn on; the flow
\* draws all it has.
InitList ==
    /\ run = <<>>
    /\ boxes = <<>>
    /\ split = NoSplit
    /\ flow = [dirty |-> Rect(Point2D(0, 0), Size2D(3, 3)), offset |-> Point2D(0, 0),
               debug |-> FALSE]
    /\ list = DisplayList_new
    /\ build = NoBuild
    /\ failed = FALSE
    /\ dom = NoDom
    /\ render_boxes = <<>>
    /\ call = [op |-> "new", before |-> <<>>, last_keys |-> None]
    /\ arcs = <<>>
    /\ refs = <<>>
    /\ context = <<>>
    /\ css_msg_port = <<>> /\ js_msg_port = <<>> /\ discovery_port = <<>>
    /\ parser = NoTask /\ css_listener = NoTask /\ js_listener = NoTask
    /\ textinput = NoTextInput

\* what the last call of keys before this call yielded, if there was one
last_keys == IF call.op = "keys" THEN Some(call.ret) ELSE call.last_keys

\* list.append_item(item)
AppendItem(item) ==
    /\ Len(list) < MaxItems
    /\ list' = append_item(list, item)
    /\ call' = [op |-> "append_item", before |-> list, item |-> item,
                last_keys |-> last_keys]
    /\ UNCHANGED <<run, boxes, split, flow, build, failed, dom, render_boxes, arcs, refs,
                   context, parse_vars, textinput>>

\* box.build_display_list(..., list), of a box with id uniq
BuildIntoList(box, uniq, text_run) ==
    \E res \in { build_display_list(box, flow.dirty, flow.offset, flow.debug, list) } :
        /\ ~failed
        /\ Len(list) < MaxItems
        /\ list' = [i \in 1..Len(res.list) |-> of_box(res.list[i], uniq, text_run)]
        /\ build' = [called |-> TRUE, box |-> box, before |-> list]
        /\ failed' = res.failed
        /\ call' = [op |-> "build_display_list", before |-> list,
                    last_keys |-> last_keys]
        /\ UNCHANGED <<run, boxes, split, flow, dom, render_boxes, arcs, refs,
                       context, parse_vars, textinput>>

\* list.draw_into_context(render_context)
DrawIntoContext ==
    /\ Len(context) < MaxItems
    /\ context' = draw_into_context(list, context)
    /\ call' = [op |-> "draw_into_context", before |-> list, context |-> context,
                last_keys |-> last_keys]
    /\ UNCHANGED <<run, boxes, split, flow, list, build, failed, dom, render_boxes, arcs,
                   refs, parse_vars, textinput>>

\* list.keys(), and the iterator run to its end
Keys ==
    /\ call' = [op |-> "keys", before |-> list, ret |-> keys(list),
                last_keys |-> last_keys]
    /\ UNCHANGED <<run, boxes, split, flow, list, build, failed, dom, render_boxes, arcs,
                   refs, context, parse_vars, textinput>>

NextList ==
    \/ \E item \in Items : AppendItem(item)
    \/ \E box \in ListBoxes, uniq \in Uniqs :
           BuildIntoList(box, uniq, [underline |-> TRUE,
                                     font |-> [ascent |-> 1, underline_size |-> 1]])
    \/ DrawIntoContext
    \/ Keys

SpecList == InitList /\ [][NextList]_vars

\* ------------------------------------------- properties of the display list
\* C22: the list is append-only. A call of append_item leaves the list it found
\* with the item after it, a call of build_display_list leaves the list it found
\* with what it appended after it, and drawing and keys leave the list as it
\* was: every item that was in the list keeps its index and its content, so the
\* list is the items appended, in the order of the calls.
C22_AppendOnly ==
    call.op \in {"append_item", "build_display_list", "draw_into_context", "keys"} =>
        /\ Len(list) >= Len(call.before)
        /\ \A i \in 1..Len(call.before) : list[i] = call.before[i]
        /\ call.op = "append_item" => list = call.before \o <<call.item>>
        /\ call.op = "build_display_list" =>
               /\ build.before = call.before
               /\ \A i \in (Len(call.before) + 1)..Len(list) :
                      list[i].bounds = translate(build.box.position, flow.offset)
        /\ call.op \in {"draw_into_context", "keys"} => list = call.before

\* C22 witness: a text box with a border built its two items into a list that
\* held an appended item, which is still the first.
C22_Witness ==
    /\ call.op = "build_display_list"
    /\ Len(call.before) = 1 /\ call.before[1] \in Items
    /\ Len(list) = 3
    /\ list[1] = call.before[1]
    /\ list[2].ty = "Text" /\ list[3].ty = "Border"

\* the draw calls the last draw_into_context made, and the number of bars
\* drawn under the text items before item i
Drawn == SubSeq(context, Len(call.context) + 1, Len(context))
Underlined(i) == list[i].ty = "Text" /\ list[i].text_run.underline
BarsBefore(i) == Cardinality({ j \in 1..(i - 1) : Underlined(j) })

\* the draw call d is the one of the kind of the item, with its bounds
Matches(d, item) ==
    CASE item.ty = "SolidColor" -> d.draw = "draw_solid_color" /\ d.bounds = item.bounds
      [] item.ty = "Text" ->
             /\ d.draw = "draw_text_into_context"
             /\ d.baseline_origin.x = item.bounds.origin.x
             /\ d.baseline_origin.y = item.bounds.origin.y + item.text_run.font.ascent
      [] item.ty = "Image" -> d.draw = "draw_image" /\ d.bounds = item.bounds
      [] item.ty = "Border" -> d.draw = "draw_border" /\ d.bounds = item.bounds

\* C23: draw_into_context goes through the list once, in the order of the
\* list: what it adds to the calls made on the context is, for each item in
\* turn, the one draw call of the kind of the item and with its bounds, and
\* nothing else but the bar of an underlined text item right after the text;
\* and the list is as it was.
C23_DrawsInAppendOrder ==
    call.op = "draw_into_context" =>
        /\ list = call.before
        /\ SubSeq(context, 1, Len(call.context)) = call.context
        /\ Len(Drawn) = Len(list) + BarsBefore(Len(list) + 1)
        /\ \A i \in 1..Len(list) :
               /\ Matches(Drawn[i + BarsBefore(i)], list[i])
               /\ Underlined(i) =>
                      /\ Drawn[i + BarsBefore(i) + 1].draw = "draw_solid_color"
                      /\ Drawn[i + BarsBefore(i) + 1].bounds.size.width
                             = list[i].bounds.size.width

\* C23 witness: a list of an image, an underlined text item and a border was
\* drawn: four draw calls, the bar third and the border last.
C23_Witness ==
    /\ call.op = "draw_into_context"
    /\ Len(list) = 3
    /\ list[1].ty = "Image" /\ Underlined(2) /\ list[3].ty = "Border"
    /\ Len(Drawn) = 4
    /\ Drawn[1].draw = "draw_image"
    /\ Drawn[3].draw = "draw_solid_color"
    /\ Drawn[4].draw = "draw_border"

\* the kind tag of each variant
KindTag ==
    [SolidColor |-> "SolidColorDisplayItemType", Text |-> "TextDisplayItemType",
     Image |-> "ImageDisplayItemType", Border |-> "BorderDisplayItemType"]

\* C24: keys yields one pair for each item of the list as it is at the call, in
\* the order of the list: the item, and the key made of the id of the box the
\* item names and the kind tag of its variant; so a call after further appends
\* yields the pairs of the new items as well.
C24_KeyPerItem ==
    call.op = "keys" =>
        /\ list = call.before
        /\ Len(call.ret) = Len(list)
        /\ \A i \in 1..Len(list) :
               /\ call.ret[i][2] = list[i]
               /\ call.ret[i][1].renderbox_uniq = list[i].renderbox_uniq
               /\ call.ret[i][1].ty = KindTag[list[i].ty]

\* C24 witness: keys was called on a list of one item, and again after a text
\* box of the other id built its items: three pairs, the new ones with the
\* id of the box.
C24_Witness ==
    /\ call.op = "keys"
    /\ is_some(call.last_keys)
    /\ Len(unwrap(call.last_keys)) = 1
    /\ Len(call.ret) = 3
    /\ call.ret[1] = unwrap(call.last_keys)[1]
    /\ call.ret[2][1] = [renderbox_uniq |-> 1, ty |-> "TextDisplayItemType"]
    /\ call.ret[1][1].renderbox_uniq = 0

\* --------------------------------- html/hubbub_html_parser.rs: the discovery
MaxChunks == 3      \* chunks of the page the resource task hands to parse_html

\* what a chunk of the page holds: a link to a stylesheet, a style element, a
\* script with a src, an inline script, an iframe
Tags == {"link", "style", "script", "inline_script", "iframe"}
Pages == UNION { [1..n -> Tags] : n \in 0..MaxChunks }

\* the messages; a resource is named by the place of its chunk in the page
CSSTaskNewFile(provenance) == [msg |-> "CSSTaskNewFile", provenance |-> provenance]
CSSTaskExit == [msg |-> "CSSTaskExit"]
JSTaskNewFile(url) == [msg |-> "JSTaskNewFile", url |-> url]
JSTaskNewInlineScript(data, url) == [msg |-> "JSTaskNewInlineScript", data |-> data, url |-> url]
JSTaskExit == [msg |-> "JSTaskExit"]
HtmlDiscoveredStyle(sheet) == [msg |-> "HtmlDiscoveredStyle", sheet |-> sheet]
HtmlDiscoveredIFrame(url) == [msg |-> "HtmlDiscoveredIFrame", url |-> url]
HtmlDiscoveredScript(result) == [msg |-> "HtmlDiscoveredScript", result |-> result]
JSFile(data, url) == [data |-> data, url |-> url]

\* spawn_css_parser: the port the stylesheet will come on, with nothing on it
\* yet; and the stylesheet of a provenance
spawn_css_parser(provenance) == [provenance |-> provenance, port |-> None]
Stylesheet(provenance) == [of |-> provenance]

\* the messages the tree handler sends for a chunk: to the stylesheet
\* listener, to the script listener, and on the discovery channel
css_of_chunk(tag, n) ==
    IF tag = "link" THEN << CSSTaskNewFile(<<"UrlProvenance", n>>) >>
    ELSE IF tag = "style" THEN << CSSTaskNewFile(<<"InlineProvenance", n>>) >>
    ELSE <<>>
js_of_chunk(tag, n) ==
    IF tag = "script" THEN << JSTaskNewFile(n) >>
    ELSE IF tag = "inline_script" THEN << JSTaskNewInlineScript(n, 0) >>
    ELSE <<>>
discovered_of_chunk(tag, n) ==
    IF tag = "iframe" THEN << HtmlDiscoveredIFrame(n) >> ELSE <<>>

\* parse_html has made the streams and spawned the two listeners, the page has
\* begun to load, and nothing of it has come yet.
InitParse ==
    /\ run = <<>>
    /\ boxes = <<>>
    /\ split = NoSplit
    /\ flow = NoFlow
    /\ list = <<>>
    /\ build = NoBuild
    /\ failed = FALSE
    /\ dom = NoDom
    /\ render_boxes = <<>>
    /\ call = NoCall
    /\ arcs = <<>>
    /\ refs = <<>>
    /\ context = <<>>
    /\ css_msg_port = <<>> /\ js_msg_port = <<>> /\ discovery_port = <<>>
    /\ \E page \in Pages :
           parser = [pc |-> "loop", page |-> page, parsed |-> 0,
                     css_sent |-> <<>>, js_sent |-> <<>>, discovered |-> <<>>]
    /\ css_listener = [pc |-> "recv", result_vec |-> <<>>, sent |-> 0, arrived |-> <<>>]
    /\ js_listener = [pc |-> "recv", result_vec |-> <<>>, errors |-> <<>>]
    /\ textinput = NoTextInput

\* Payload(data): parser.parse_chunk(data), the tree handler sending what the
\* chunk holds
ParseChunk ==
    /\ parser.pc = "loop"
    /\ parser.parsed < Len(parser.page)
    /\ LET n == parser.parsed + 1
           tag == parser.page[n]
       IN  /\ css_msg_port' = css_msg_port \o css_of_chunk(tag, n)
           /\ js_msg_port' = js_msg_port \o js_of_chunk(tag, n)
           /\ discovery_port' = discovery_port \o discovered_of_chunk(tag, n)
           /\ parser' = [parser EXCEPT !.parsed = n,
                                       !.css_sent = @ \o css_of_chunk(tag, n),
                                       !.js_sent = @ \o js_of_chunk(tag, n),
                                       !.discovered = @ \o discovered_of_chunk(tag, n)]
    /\ UNCHANGED <<layout_vars, context, css_listener, js_listener, textinput>>

\* mutant: parse_html returns without telling the stylesheet listener
LoadDoneWithoutCssExit ==
    /\ parser.pc = "loop"
    /\ parser.parsed = Len(parser.page)
    /\ js_msg_port' = Append(js_msg_port, JSTaskExit)
    /\ parser' = [parser EXCEPT !.pc = "returned", !.js_sent = Append(@, JSTaskExit)]
    /\ UNCHANGED <<layout_vars, context, css_msg_port, discovery_port, css_listener,
                   js_listener, textinput>>

\* Done(Ok): the loop ends, the two exit messages go out, parse_html returns
LoadDone ==
    /\ parser.pc = "loop"
    /\ parser.parsed = Len(parser.page)
    /\ css_msg_port' = Append(css_msg_port, CSSTaskExit)
    /\ js_msg_port' = Append(js_msg_port, JSTaskExit)
    /\ parser' = [parser EXCEPT !.pc = "returned",
                                !.css_sent = Append(@, CSSTaskExit),
                                !.js_sent = Append(@, JSTaskExit)]
    /\ UNCHANGED <<layout_vars, context, discovery_port, css_listener, js_listener,
                   textinput>>

\* Done(Err): fail!("Failed to load page URL"), and the channels go with the task
LoadFailed ==
    /\ parser.pc = "loop"
    /\ parser' = [parser EXCEPT !.pc = "failed"]
    /\ UNCHANGED <<layout_vars, context, css_msg_port, js_msg_port, discovery_port,
                   css_listener, js_listener, textinput>>

\* css_link_listener, one turn of its loop: from_parent.recv()
CssListenerRecv ==
    /\ css_listener.pc = "recv"
    /\ IF css_msg_port = <<>>
       THEN /\ parser.pc = "failed"
            /\ css_listener' = [css_listener EXCEPT !.pc = "failed"]
            /\ UNCHANGED css_msg_port
       ELSE /\ css_msg_port' = Tail(css_msg_port)
            /\ IF Head(css_msg_port).msg = "CSSTaskNewFile"
               THEN css_listener' =
                        [css_listener EXCEPT
                            !.result_vec =
                                Append(@, spawn_css_parser(Head(css_msg_port).provenance))]
               ELSE css_listener' =
                        [css_listener EXCEPT
                            !.pc = IF Len(css_listener.result_vec) = 0 THEN "done" ELSE "send"]
    /\ UNCHANGED <<layout_vars, context, js_msg_port, discovery_port, parser, js_listener,
                   textinput>>

\* a stylesheet parser that spawn_css_parser started sends its stylesheet;
\* arrived keeps the order in which the stylesheets came
CssParserSends(k) ==
    /\ k \in 1..Len(css_listener.result_vec)
    /\ is_none(css_listener.result_vec[k].port)
    /\ css_listener' =
           [css_listener EXCEPT
               !.result_vec[k].port = Some(Stylesheet(css_listener.result_vec[k].provenance)),
               !.arrived = Append(@, k)]
    /\ UNCHANGED <<layout_vars, context, css_msg_port, js_msg_port, discovery_port, parser,
                   js_listener, textinput>>

\* mutant: a stylesheet is forwarded as soon as it is there and it is its turn
CssListenerSendAsReady ==
    /\ css_listener.pc \in {"recv", "send"}
    /\ LET k == css_listener.sent + 1
       IN  /\ k <= Len(css_listener.result_vec)
           /\ is_some(css_listener.result_vec[k].port)
           /\ discovery_port' =
                  Append(discovery_port,
                         HtmlDiscoveredStyle(unwrap(css_listener.result_vec[k].port)))
           /\ css_listener' =
                  [css_listener EXCEPT
                      !.sent = k,
                      !.pc = IF css_listener.pc = "send" /\ k = Len(css_listener.result_vec)
                             THEN "done" ELSE css_listener.pc]
    /\ UNCHANGED <<layout_vars, context, css_msg_port, js_msg_port, parser, js_listener,
                   textinput>>

\* css_link_listener after the loop, one turn of the for:
\* to_parent.send(HtmlDiscoveredStyle(port.recv()))
CssListenerSend ==
    /\ css_listener.pc = "send"
    /\ LET k == css_listener.sent + 1
       IN  /\ is_some(css_listener.result_vec[k].port)
           /\ discovery_port' =
                  Append(discovery_port,
                         HtmlDiscoveredStyle(unwrap(css_listener.result_vec[k].port)))
           /\ css_listener' =
                  [css_listener EXCEPT
                      !.sent = k,
                      !.pc = IF k = Len(css_listener.result_vec) THEN "done" ELSE "send"]
    /\ UNCHANGED <<layout_vars, context, css_msg_port, js_msg_port, parser, js_listener,
                   textinput>>

\* mutant: a script that fails to load ends the loop
JsListenerRecvUntilError(loaded) ==
    /\ js_listener.pc = "recv"
    /\ js_msg_port # <<>>
    /\ LET m == Head(js_msg_port)
           push == m.msg = "JSTaskNewInlineScript" \/ (m.msg = "JSTaskNewFile" /\ loaded)
       IN  /\ js_msg_port' = Tail(js_msg_port)
           /\ IF push
              THEN /\ js_listener' =
                          [js_listener EXCEPT
                              !.result_vec =
                                  Append(@, IF m.msg = "JSTaskNewFile"
                                            THEN JSFile(m.url, m.url)
                                            ELSE JSFile(m.data, m.url))]
                   /\ UNCHANGED discovery_port
              ELSE /\ js_listener' =
                          [js_listener EXCEPT
                              !.pc = "done",
                              !.errors = IF m.msg = "JSTaskNewFile" THEN Append(@, m.url)
                                         ELSE @]
                   /\ discovery_port' =
                          Append(discovery_port,
                                 HtmlDiscoveredScript(js_listener.result_vec))
    /\ UNCHANGED <<layout_vars, context, css_msg_port, parser, css_listener, textinput>>

\* js_script_listener, one turn of its loop; load_whole_resource gives the
\* bytes of the script or an error; after JSTaskExit the result goes out
JsListenerRecv(loaded) ==
    /\ js_listener.pc = "recv"
    /\ IF js_msg_port = <<>>
       THEN /\ parser.pc = "failed"
            /\ js_listener' = [js_listener EXCEPT !.pc = "failed"]
            /\ UNCHANGED <<js_msg_port, discovery_port>>
       ELSE LET m == Head(js_msg_port)
            IN  /\ js_msg_port' = Tail(js_msg_port)
                /\ CASE m.msg = "JSTaskNewFile" ->
                            /\ js_listener' =
                                   IF loaded
                                   THEN [js_listener EXCEPT
                                            !.result_vec = Append(@, JSFile(m.url, m.url))]
                                   ELSE [js_listener EXCEPT !.errors = Append(@, m.url)]
                            /\ UNCHANGED discovery_port
                     [] m.msg = "JSTaskNewInlineScript" ->
                            /\ js_listener' =
                                   [js_listener EXCEPT
                                       !.result_vec = Append(@, JSFile(m.data, m.url))]
                            /\ UNCHANGED discovery_port
                     [] m.msg = "JSTaskExit" ->
                            /\ js_listener' = [js_listener EXCEPT !.pc = "done"]
                            /\ discovery_port' =
                                   Append(discovery_port,
                                          HtmlDiscoveredScript(js_listener.result_vec))
    /\ UNCHANGED <<layout_vars, context, css_msg_port, parser, css_listener, textinput>>

Parser == ParseChunk \/ LoadDone \/ LoadFailed
CssListener == CssListenerRecv \/ CssListenerSend
CssParsers == \E k \in 1..MaxChunks : CssParserSends(k)
JsListener == \E loaded \in BOOLEAN : JsListenerRecv(loaded)

NextParse == Parser \/ CssListener \/ CssParsers \/ JsListener

SpecParse == InitParse /\ [][NextParse]_vars

\* the tasks take their turns, and the stylesheet parsers send their
\* stylesheets
SpecParseFair ==
    /\ SpecParse
    /\ WF_vars(CssListener)
    /\ WF_vars(CssParsers)
    /\ WF_vars(JsListener)

\* ------------------------------------------------ properties of discovery
\* the messages of one kind in a sequence of messages
Of(kind, messages) == SelectSeq(messages, LAMBDA m : m.msg = kind)

\* a listener has received the exit message: parse_html has sent it and it is
\* no longer in the stream
CssExitReceived ==
    Of("CSSTaskExit", parser.css_sent) # <<>> /\ Of("CSSTaskExit", css_msg_port) = <<>>
JsExitReceived ==
    Of("JSTaskExit", parser.js_sent) # <<>> /\ Of("JSTaskExit", js_msg_port) = <<>>

\* the CSSTaskNewFile messages the stylesheet listener has received
CssFilesReceived ==
    SubSeq(Of("CSSTaskNewFile", parser.css_sent), 1,
           Len(Of("CSSTaskNewFile", parser.css_sent)) - Len(Of("CSSTaskNewFile", css_msg_port)))

\* C25: no HtmlDiscoveredStyle is on the discovery port before the stylesheet
\* listener has received CSSTaskExit; the stylesheets forwarded are those of the
\* files received, one each and in the order of discovery, whatever the order
\* the stylesheets came in; and when the listener is done, all of them.
C25_BufferedUntilExit ==
    LET styles == Of("HtmlDiscoveredStyle", discovery_port)
    IN  /\ ~CssExitReceived => styles = <<>>
        /\ Len(styles) <= Len(CssFilesReceived)
        /\ \A i \in 1..Len(styles) :
               styles[i].sheet = Stylesheet(CssFilesReceived[i].provenance)
        /\ css_listener.pc = "done" =>
               CssExitReceived /\ Len(styles) = Len(CssFilesReceived)

\* C25 witness: of two stylesheets the second came first, and both were
\* forwarded, the first first.
C25_Witness ==
    LET styles == Of("HtmlDiscoveredStyle", discovery_port)
    IN  /\ css_listener.pc = "done"
        /\ css_listener.arrived = <<2, 1>>
        /\ Len(styles) = 2
        /\ styles[1].sheet = Stylesheet(CssFilesReceived[1].provenance)
        /\ styles[1].sheet # styles[2].sheet

\* the script a message to the script listener stands for
ScriptOf(m) ==
    IF m.msg = "JSTaskNewFile" THEN JSFile(m.url, m.url) ELSE JSFile(m.data, m.url)

\* the scripts parse_html has sent to the listener that did not fail to load
Collected ==
    LET kept == SelectSeq(parser.js_sent,
                          LAMBDA m : \/ m.msg = "JSTaskNewInlineScript"
                                     \/ /\ m.msg = "JSTaskNewFile"
                                        /\ \A e \in 1..Len(js_listener.errors) :
                                               js_listener.errors[e] # m.url)
    IN  [i \in 1..Len(kept) |-> ScriptOf(kept[i])]

\* C26: there is at most one HtmlDiscoveredScript on the discovery port, none
\* before the script listener has received JSTaskExit and one after; its list
\* is, in the order of discovery, the inline scripts and the scripts that
\* loaded, without those whose load failed; and the listener does not stop for
\* a load that failed.
C26_OneScriptListAfterExit ==
    LET scripts == Of("HtmlDiscoveredScript", discovery_port)
    IN  /\ Len(scripts) = (IF JsExitReceived THEN 1 ELSE 0)
        /\ Len(scripts) = 1 => scripts[1].result = Collected
        /\ (js_listener.pc = "done") = JsExitReceived
        /\ js_listener.pc = "failed" => parser.pc = "failed"

\* C26 witness: a script failed to load, the inline script after it is in the
\* list that was sent, and so is a script that loaded.
C26_Witness ==
    LET scripts == Of("HtmlDiscoveredScript", discovery_port)
    IN  /\ Len(scripts) = 1
        /\ js_listener.errors = <<1>>
        /\ Len(scripts[1].result) = 2
        /\ scripts[1].result[1] = JSFile(2, 0)
        /\ scripts[1].result[2] = JSFile(3, 3)

\* what is on the discovery port is all that the page holds: the stylesheets of
\* all the files, the list of scripts, and the iframes
AllDelivered ==
    /\ Len(Of("HtmlDiscoveredStyle", discovery_port))
           = Len(Of("CSSTaskNewFile", parser.css_sent))
    /\ Len(Of("HtmlDiscoveredScript", discovery_port)) = 1
    /\ Of("HtmlDiscoveredIFrame", discovery_port) = parser.discovered

\* parse_html has sent each exit message at most once, as the last message of
\* its stream, after the whole page was parsed, and has sent both when it has
\* returned
ExitsLast ==
    /\ \A i \in 1..Len(parser.css_sent) :
           parser.css_sent[i].msg = "CSSTaskExit" =>
               i = Len(parser.css_sent) /\ parser.parsed = Len(parser.page)
    /\ \A i \in 1..Len(parser.js_sent) :
           parser.js_sent[i].msg = "JSTaskExit" =>
               i = Len(parser.js_sent) /\ parser.parsed = Len(parser.page)
    /\ (parser.pc = "returned") =
           (Len(Of("CSSTaskExit", parser.css_sent)) = 1)
    /\ (parser.pc = "returned") =
           (Len(Of("JSTaskExit", parser.js_sent)) = 1)

\* C28: parse_html sends CSSTaskExit and JSTaskExit once each when the page has
\* loaded, after every message of the parse; and once it has returned, both
\* listeners come to their end and every stylesheet and the list of scripts are
\* on the discovery port, the stylesheet parsers sending their stylesheets.
C28_ExitsThenAllDelivered ==
    /\ []ExitsLast
    /\ (parser.pc = "returned") ~>
           (css_listener.pc = "done" /\ js_listener.pc = "done" /\ AllDelivered)

\* C28 witness: a page of a stylesheet, a script and an iframe has loaded, both
\* listeners are done and all three are on the discovery port.
C28_Witness ==
    /\ parser.pc = "returned"
    /\ css_listener.pc = "done" /\ js_listener.pc = "done"
    /\ AllDelivered
    /\ Len(Of("HtmlDiscoveredStyle", discovery_port)) = 1
    /\ Len(Of("HtmlDiscoveredIFrame", discovery_port)) = 1
    /\ Of("HtmlDiscoveredScript", discovery_port)[1].result # <<>>

\* ----------------------------------------------- script/textinput.rs: TextInput
MaxText == 3        \* characters of a content handed in, and of the text typed

\* uint is the machine word; the model keeps 31 bits of it, the most that TLC
\* has, and no length or index of the model comes near
uint_max == 2147483647
wrapping_sub(a, b) == IF a >= b THEN a - b ELSE uint_max - (b - a) + 1

\* A DOMString is a sequence of characters; len() counts bytes, and the one
\* character of the model that is not ASCII takes two
utf8_len(ch) == IF ch = "e-acute" THEN 2 ELSE 1
len(s) ==
    LET sum[i \in 0..Len(s)] == IF i = 0 THEN 0 ELSE sum[i - 1] + utf8_len(s[i])
    IN  sum[Len(s)]

\* slice_chars(begin, end) counts characters; it asserts begin <= end and fails
\* where an index is beyond the end of the string
slice_chars(s, begin_, end_) ==
    IF begin_ > end_ \/ begin_ > Len(s) \/ end_ > Len(s) THEN Fail
    ELSE Returned(SubSeq(s, begin_ + 1, end_))

\* content.split('\n'): the pieces between the newlines, one at least
split_lines(content) ==
    LET pieces[i \in 0..Len(content)] ==
            IF i = 0 THEN << <<>> >>
            ELSE IF content[i] = "\n" THEN Append(pieces[i - 1], <<>>)
            ELSE [pieces[i - 1] EXCEPT ![Len(pieces[i - 1])] = Append(@, content[i])]
    IN  pieces[Len(content)]

\* a TextInput whose task has failed
Failed(ti) == [ti EXCEPT !.failed = TRUE]

\* self.lines[self.edit_point.line], where there is such a line
has_current_line(ti) == ti.edit_point.line < Len(ti.lines)
get_current_line(ti) == ti.lines[ti.edit_point.line + 1]
current_line_length(ti) == len(get_current_line(ti))

\* TextInput::set_content
set_content(ti, content) ==
    LET lines == IF ti.multiline THEN split_lines(content) ELSE << content >>
        line == Min(ti.edit_point.line, wrapping_sub(Len(lines), 1))
        placed == [ti EXCEPT !.lines = lines, !.edit_point.line = line]
    IN  IF ~has_current_line(placed) THEN Failed(placed)
        ELSE [placed EXCEPT
                 !.edit_point.index =
                     Min(ti.edit_point.index, wrapping_sub(current_line_length(placed), 1))]

\* TextInput::new
TextInput_new(multiline, initial) ==
    set_content([lines |-> <<>>, edit_point |-> [line |-> 0, index |-> 0],
                 selection |-> None, multiline |-> multiline, failed |-> FALSE],
                initial)

\* TextInput::insert_char
insert_char(ti, ch) ==
    IF ~has_current_line(ti) THEN Failed(ti)
    ELSE LET prefix == slice_chars(get_current_line(ti), 0, ti.edit_point.index)
             suffix == slice_chars(get_current_line(ti), ti.edit_point.index,
                                   current_line_length(ti))
         IN  IF prefix.fail \/ suffix.fail THEN Failed(ti)
             ELSE [ti EXCEPT !.lines[ti.edit_point.line + 1] =
                                 prefix.value \o <<ch>> \o suffix.value,
                             !.edit_point.index = @ + 1]

\* TextInput::adjust_vertical
adjust_vertical(ti, adjust) ==
    IF ~ti.multiline THEN ti
    ELSE IF adjust < 0 /\ ti.edit_point.line + adjust < 0
    THEN [ti EXCEPT !.edit_point.index = 0, !.edit_point.line = 0]
    ELSE IF adjust > 0
            /\ ti.edit_point.line >= Min(0, wrapping_sub(Len(ti.lines), adjust))
    THEN IF ~has_current_line(ti) THEN Failed(ti)
         ELSE [ti EXCEPT !.edit_point.index = current_line_length(ti),
                         !.edit_point.line = wrapping_sub(Len(ti.lines), 1)]
    ELSE LET moved == [ti EXCEPT !.edit_point.line = @ + adjust]
         IN  IF ~has_current_line(moved) THEN Failed(moved)
             ELSE [moved EXCEPT
                      !.edit_point.index = Min(current_line_length(moved), @)]

\* TextInput::adjust_horizontal; it calls itself, and a call that comes back to
\* the point and the adjustment of a call it is inside of never returns: the
\* stack runs out. depth counts the calls: more than there are lines, and one
\* for each end, is such a return.
RECURSIVE adjust_horizontal_from(_, _, _)
adjust_horizontal_from(ti, adjust, depth) ==
    IF ti.failed THEN ti
    ELSE IF depth > Len(ti.lines) + 2 THEN Failed(ti)
    ELSE IF ~has_current_line(ti) THEN Failed(ti)
    ELSE IF adjust < 0
    THEN IF ti.multiline
         THEN LET remaining == ti.edit_point.index
              IN  IF (0 - adjust) > remaining
                  THEN LET up == adjust_vertical([ti EXCEPT !.edit_point.index = 0], 0 - 1)
                       IN  IF up.failed \/ ~has_current_line(up) THEN Failed(up)
                           ELSE adjust_horizontal_from(
                                    [up EXCEPT !.edit_point.index = current_line_length(up)],
                                    adjust + remaining, depth + 1)
                  ELSE [ti EXCEPT !.edit_point.index = @ + adjust]
         ELSE [ti EXCEPT !.edit_point.index = Max(0, @ + adjust)]
    ELSE IF ti.multiline
         THEN LET remaining == wrapping_sub(current_line_length(ti), ti.edit_point.index)
              IN  IF adjust > remaining
                  THEN adjust_horizontal_from(
                           adjust_vertical([ti EXCEPT !.edit_point.index = 0], 1),
                           adjust - remaining, depth + 1)
                  ELSE [ti EXCEPT !.edit_point.index = @ + adjust]
         ELSE [ti EXCEPT !.edit_point.index = Min(current_line_length(ti), @ + adjust)]

adjust_horizontal(ti, adjust) == adjust_horizontal_from(ti, adjust, 0)

\* TextInput::delete_char
delete_char(ti, forward) ==
    IF ~has_current_line(ti) THEN Failed(ti)
    ELSE LET index == ti.edit_point.index
             is_eol == index = wrapping_sub(current_line_length(ti), 1)
         IN  IF ~forward /\ ti.multiline /\ ~(index > 0) THEN Failed(ti)
             ELSE IF ~forward /\ ~ti.multiline /\ index = 0 THEN ti
             ELSE IF forward /\ ti.multiline /\ is_eol THEN Failed(ti)
             ELSE IF forward /\ ~ti.multiline /\ is_eol THEN ti
             ELSE LET prefix_end == IF forward THEN index ELSE index - 1
                      suffix_start == IF forward THEN index + 1 ELSE index
                      prefix == slice_chars(get_current_line(ti), 0, prefix_end)
                      suffix == slice_chars(get_current_line(ti), suffix_start,
                                            current_line_length(ti))
                  IN  IF prefix.fail \/ suffix.fail THEN Failed(ti)
                      ELSE LET deleted == [ti EXCEPT !.lines[ti.edit_point.line + 1] =
                                                         prefix.value \o suffix.value]
                           IN  IF forward THEN deleted
                               ELSE adjust_horizontal(deleted, 0 - 1)

\* TextInput::handle_return
handle_return(ti) ==
    IF ~ti.multiline THEN ti
    ELSE IF ~has_current_line(ti) THEN Failed(ti)
    ELSE LET prefix == slice_chars(get_current_line(ti), 0, ti.edit_point.index)
             suffix == slice_chars(get_current_line(ti), ti.edit_point.index,
                                   current_line_length(ti))
             line == ti.edit_point.line + 1
         IN  IF prefix.fail \/ suffix.fail THEN Failed(ti)
             ELSE [ti EXCEPT !.lines = SubSeq(ti.lines, 1, line - 1)
                                           \o << prefix.value, suffix.value >>
                                           \o SubSeq(ti.lines, line + 1, Len(ti.lines))]

\* TextInput::handle_keydown: the TextInput it leaves
handle_keydown(ti, key) ==
    CASE key = "a" -> insert_char(ti, "a")
      [] key = "Space" -> insert_char(ti, " ")
      [] key = "Delete" -> delete_char(ti, TRUE)
      [] key = "Backspace" -> delete_char(ti, FALSE)
      [] key = "ArrowLeft" -> adjust_horizontal(ti, 0 - 1)
      [] key = "ArrowRight" -> adjust_horizontal(ti, 1)
      [] key = "ArrowUp" -> adjust_vertical(ti, 0 - 1)
      [] key = "ArrowDown" -> adjust_vertical(ti, 1)
      [] key = "Enter" -> handle_return(ti)
      [] key = "Home" -> [ti EXCEPT !.edit_point.index = 0]
      [] key = "End" ->
             IF ~has_current_line(ti) THEN Failed(ti)
             ELSE [ti EXCEPT !.edit_point.index = current_line_length(ti)]
      [] OTHER -> ti

\* the keys, and the contents handed to new and to set_content
KeyValues ==
    {"a", "Space", "Delete", "Backspace", "ArrowLeft", "ArrowRight", "ArrowUp",
     "ArrowDown", "Enter", "Home", "End", "Tab"}
Contents == UNION { [1..n -> {"a", "\n", "e-acute"}] : n \in 0..MaxText }

\* the number of characters of get_content()
content_length(ti) ==
    LET sum[i \in 0..Len(ti.lines)] ==
            IF i = 0 THEN 0 ELSE sum[i - 1] + Len(ti.lines[i]) + (IF i > 1 THEN 1 ELSE 0)
    IN  sum[Len(ti.lines)]

\* A TextInput as new leaves it, of one line or of many.
InitText ==
    /\ run = <<>>
    /\ boxes = <<>>
    /\ split = NoSplit
    /\ flow = NoFlow
    /\ list = <<>>
    /\ build = NoBuild
    /\ failed = FALSE
    /\ dom = NoDom
    /\ render_boxes = <<>>
    /\ call = NoCall
    /\ arcs = <<>>
    /\ refs = <<>>
    /\ context = <<>>
    /\ css_msg_port = <<>> /\ js_msg_port = <<>> /\ discovery_port = <<>>
    /\ parser = NoTask /\ css_listener = NoTask /\ js_listener = NoTask
    /\ \E multiline \in BOOLEAN, initial \in Contents :
           textinput = TextInput_new(multiline, initial)

SetContent(content) ==
    /\ ~textinput.failed
    /\ textinput' = set_content(textinput, content)
    /\ UNCHANGED <<layout_vars, context, parse_vars>>

\* a key goes down; no more is typed than MaxText characters, and the edit
\* point is not sent further to the right than that
HandleKeydown(key) ==
    /\ ~textinput.failed
    /\ key \in {"a", "Space", "Enter"} => content_length(textinput) < MaxText
    /\ key = "ArrowRight" => textinput.edit_point.index <= MaxText
    /\ textinput' = handle_keydown(textinput, key)
    /\ UNCHANGED <<layout_vars, context, parse_vars>>

NextText ==
    \/ \E content \in Contents : SetContent(content)
    \/ \E key \in KeyValues : HandleKeydown(key)

SpecText == InitText /\ [][NextText]_vars

\* ------------------------------------------------ properties of TextInput
\* C29: no line of a TextInput holds a newline, after new and after any
\* set_content and handle_keydown, whether it is of one line or of many.
C29_NoNewlineInLines ==
    \A i \in 1..Len(textinput.lines) :
        \A j \in 1..Len(textinput.lines[i]) : textinput.lines[i][j] # "\n"

\* C30: the edit point is inside the content after new and after any
\* set_content and handle_keydown: there is a line, the edit point is on a line
\* there is, at most at its end, and no operation has failed.
C30_EditPointInside ==
    /\ ~textinput.failed
    /\ Len(textinput.lines) > 0
    /\ textinput.edit_point.line < Len(textinput.lines)
    /\ textinput.edit_point.index <= current_line_length(textinput)

====
